---- MODULE Spec2Model ----
(***************************************************************************)
(* A model of the air-cargo manifest viewer.                               *)
(*                                                                         *)
(*   - services/apiService.ts: asNumber, transformManifest and             *)
(*     getManifestDetails, as operators over raw upstream documents, run   *)
(*     under SpecTransform;                                                *)
(*   - components/Modal.tsx: getValueByPath and applyFilters, run under    *)
(*     SpecFilter.                                                         *)
(*                                                                         *)
(* JavaScript values are encoded as records of one shape per kind, so that *)
(* any two of them can be compared:                                        *)
(*   - a scalar is [t, n, s]: t is the typeof tag ("undefined", "number",  *)
(*     "string"), n the number, s the string as a sequence of characters;  *)
(*   - a property that should hold an array is [isArray, items];           *)
(*   - a property that should hold a plain string is that string, or       *)
(*     Absent when the key is missing (undefined).                         *)
(* Weights are rationals: they are held as integer multiples of 1/WScale   *)
(* kg, WScale being a common multiple of every divisor the allocation can  *)
(* use, so that every share is computed exactly.                           *)
(***************************************************************************)
EXTENDS Integers, Sequences, FiniteSets, TLC

(***************************************************************************)
(* Bounds of the model.                                                    *)
(***************************************************************************)
\* longest pieces[] of a masterbill
MaxMbPieces == 2
\* longest pieces[] of a housebill
MaxHbPieces == 2
\* most masterbills in a document of the many-masterbill family
MaxMasterbills == 2

(***************************************************************************)
(* Generic helpers.                                                        *)
(***************************************************************************)
SeqsUpTo(S, n) == UNION {[1..k -> S] : k \in 0..n}

RECURSIVE Gcd(_, _)
Gcd(a, b) == IF b = 0 THEN a ELSE Gcd(b, a % b)

RECURSIVE LcmUpTo(_)
LcmUpTo(n) == IF n <= 1 THEN 1 ELSE LET l == LcmUpTo(n - 1) IN (l * n) \div Gcd(l, n)

\* weights are counted in units of 1/WScale kg
WScale == LcmUpTo(MaxMbPieces)

\* a missing key / undefined
Absent == "<absent>"

\* x ?? d for string-valued properties
Nullish(x, d) == IF x = Absent THEN d ELSE x

Arr(items) == [isArray |-> TRUE, items |-> items]
NotArr == [isArray |-> FALSE, items |-> <<>>]

\* Array.isArray(x) ? x : []
ArrayOrEmpty(x) == IF x.isArray THEN x.items ELSE <<>>

Undef == [t |-> "undefined", n |-> 0, s |-> <<>>]
Num(n) == [t |-> "number", n |-> n, s |-> <<>>]
Str(s) == [t |-> "string", n |-> 0, s |-> s]

(***************************************************************************)
(* An insertion-ordered Map: a sequence of entries [k, v] with distinct    *)
(* keys, in order of first insertion (the order JS iterates a Map in).     *)
(***************************************************************************)
MapHas(m, key) == \E i \in 1..Len(m) : m[i].k = key

MapGet(m, key) == m[CHOOSE i \in 1..Len(m) : m[i].k = key].v

\* a set that never replaces
MapSetAppend(m, key, val) == Append(m, [k |-> key, v |-> val])

MapSet(m, key, val) ==
    IF MapHas(m, key)
    THEN [i \in 1..Len(m) |-> IF m[i].k = key THEN [k |-> key, v |-> val] ELSE m[i]]
    ELSE Append(m, [k |-> key, v |-> val])

\* Set.add on an insertion-ordered Set of strings
SetAdd(s, x) == IF \E i \in 1..Len(s) : s[i] = x THEN s ELSE Append(s, x)

(***************************************************************************)
(* Number(string): decimal digit strings parse to their value, the empty   *)
(* string to 0, anything else to NaN.                                      *)
(***************************************************************************)
Digits == <<"0", "1", "2", "3", "4", "5", "6", "7", "8", "9">>

IsDigit(c) == \E d \in 1..10 : Digits[d] = c

DigitValue(c) == (CHOOSE d \in 1..10 : Digits[d] = c) - 1

RECURSIVE ParseDigits(_, _)
ParseDigits(s, acc) ==
    IF s = <<>> THEN acc ELSE ParseDigits(Tail(s), 10 * acc + DigitValue(Head(s)))

\* [finite |-> FALSE] is NaN
NumberOfString(s) ==
    IF \A i \in 1..Len(s) : IsDigit(s[i])
    THEN [finite |-> TRUE, n |-> ParseDigits(s, 0)]
    ELSE [finite |-> FALSE, n |-> 0]

\* asNumber without its string branch
asNumberOfNumbers(value) == IF value.t = "number" THEN value.n ELSE 0

\* apiService.ts 46-53
asNumber(value) ==
    IF value.t = "number" THEN value.n
    ELSE IF value.t = "string"
         THEN LET parsed == NumberOfString(value.s)
              IN IF parsed.finite THEN parsed.n ELSE 0
         ELSE 0

\* a number of kilograms in units of 1/WScale kg
Kg(n) == n * WScale

(***************************************************************************)
(* Raw upstream records (apiService.ts reads them as `any`).               *)
(*   piece of a masterbill : [containerNumber]                             *)
(*   piece of a housebill  : [weight]                                      *)
(*   housebill  : [housebillNumber, pieces]                                *)
(*   masterbill : [isNull, masterbillNumber, natureOfGoods, shcs, pieces,  *)
(*                 housebills]; a null element reads as undefined on every *)
(*                 key (optional chaining), so it carries Absent / NotArr  *)
(*   container  : [containerNumber, key, value]: besides containerNumber   *)
(*                 it has one property `key` (none when key = "none")      *)
(*   document   : [manifest, containers, masterbills]                      *)
(*   response body : [hasDoc, doc, own]: the document is under `doc` when  *)
(*                 hasDoc, and otherwise the body itself (`own`)           *)
(* customer, remarks, the manifest's id, number, flight number and date    *)
(* are strings copied through unchanged and are left out.                  *)
(***************************************************************************)

\* `key in masterbill` for the three keys the heuristic probes
HasProbeKey(sample) ==
    \/ sample.masterbillNumber # Absent
    \/ sample.housebills.isArray
    \/ sample.pieces.isArray

\* apiService.ts 93-108: the masterbills of one container, or a TypeError
\* (`in` applied to null)
DiscoverMasterbills(container) ==
    IF container.key = "masterbills" /\ container.value.isArray
    THEN [threw |-> FALSE, masterbills |-> container.value.items]
    ELSE IF container.key = "masterbill" /\ container.value.isArray
    THEN [threw |-> FALSE, masterbills |-> container.value.items]
    ELSE IF container.key # "none" /\ container.value.isArray
            /\ Len(container.value.items) > 0
         \* typeof value[0] === 'object' holds of an object and of null
         THEN LET sample == container.value.items[1]
              IN IF sample.isNull
                 THEN [threw |-> TRUE, masterbills |-> <<>>]
                 ELSE IF HasProbeKey(sample)
                      THEN [threw |-> FALSE, masterbills |-> container.value.items]
                      ELSE [threw |-> FALSE, masterbills |-> <<>>]
         ELSE [threw |-> FALSE, masterbills |-> <<>>]

RECURSIVE SumWeights(_)
\* list.reduce((s, p) => s + asNumber(p?.weight), 0)
SumWeights(list) ==
    IF list = <<>> THEN 0 ELSE Kg(asNumber(Head(list).weight)) + SumWeights(Tail(list))

RECURSIVE SumHbPieceCounts(_)
\* housebills.reduce((sum, hb) => sum + (Array.isArray(hb?.pieces) ? hb.pieces.length : 0), 0)
SumHbPieceCounts(housebills) ==
    IF housebills = <<>> THEN 0
    ELSE Len(ArrayOrEmpty(Head(housebills).pieces)) + SumHbPieceCounts(Tail(housebills))

\* the weight of the first housebill alone
TotalHouseWeightOfFirst(housebills) ==
    IF housebills = <<>> THEN 0 ELSE SumWeights(ArrayOrEmpty(Head(housebills).pieces))

RECURSIVE TotalHouseWeight(_)
\* apiService.ts 130-133
TotalHouseWeight(housebills) ==
    IF housebills = <<>> THEN 0
    ELSE SumWeights(ArrayOrEmpty(Head(housebills).pieces)) + TotalHouseWeight(Tail(housebills))

\* the pieces of the housebills counted on top of the masterbill's own
PiecesCountOfBoth(piecesArray, housebills) ==
    Len(piecesArray) + SumHbPieceCounts(housebills)

\* apiService.ts 127-129
PiecesCount(piecesArray, housebills) ==
    IF Len(piecesArray) > 0 THEN Len(piecesArray) ELSE SumHbPieceCounts(housebills)

\* apiService.ts 124: shcs.map(s => String(s?.code ?? ''))
ShcCodes(masterbill) ==
    LET list == ArrayOrEmpty(masterbill.shcs)
    IN [i \in 1..Len(list) |-> Nullish(list[i].code, "")]

RECURSIVE AddAll(_, _)
\* shcs.forEach(code => existing.shcs.add(code))
AddAll(set, codes) ==
    IF codes = <<>> THEN set ELSE AddAll(SetAdd(set, Head(codes)), Tail(codes))

\* apiService.ts 139-146: the accumulator of an AWB seen for the first time
NewAccumulator(masterbill) ==
    [totalPieces |-> 0, totalWeightKg |-> 0, uldIdToTotals |-> <<>>,
     houseShipments |-> <<>>,
     natureOfGoods |-> Nullish(masterbill.natureOfGoods, ""),
     shcs |-> <<>>]

RECURSIVE CountPiecesOnce(_, _, _)
\* prev forgotten: a ULD counts 1 however many pieces name it
CountPiecesOnce(counts, piecesArray, fallbackUld) ==
    IF piecesArray = <<>> THEN counts
    ELSE CountPiecesOnce(
            MapSet(counts, Nullish(Head(piecesArray).containerNumber, fallbackUld), 1),
            Tail(piecesArray), fallbackUld)

RECURSIVE CountPieces(_, _, _)
\* apiService.ts 158-162: one piece counts 1 for its own container, or for
\* fallbackUld when it names none
CountPieces(counts, piecesArray, fallbackUld) ==
    IF piecesArray = <<>> THEN counts
    ELSE LET uldFromPiece == Nullish(Head(piecesArray).containerNumber, fallbackUld)
             prev == IF MapHas(counts, uldFromPiece) THEN MapGet(counts, uldFromPiece) ELSE 0
         IN CountPieces(MapSet(counts, uldFromPiece, prev + 1), Tail(piecesArray), fallbackUld)

\* every piece counted for the enclosing container
UldPieceCountsOfContainer(piecesArray, piecesCount, fallbackUld) ==
    <<[k |-> fallbackUld, v |-> piecesCount]>>

\* apiService.ts 156-166
UldPieceCounts(piecesArray, piecesCount, fallbackUld) ==
    IF Len(piecesArray) > 0
    THEN CountPieces(<<>>, piecesArray, fallbackUld)
    ELSE <<[k |-> fallbackUld, v |-> piecesCount]>>

RECURSIVE SumValues(_)
SumValues(m) == IF m = <<>> THEN 0 ELSE Head(m).v + SumValues(Tail(m))

\* apiService.ts 169: ... .reduce((a, b) => a + b, 0) || 1
TotalPiecesForAllocation(uldPieceCounts) ==
    LET total == SumValues(uldPieceCounts) IN IF total = 0 THEN 1 ELSE total

\* the weight split evenly over the pieces, pcs forgotten
ShareOfOnePiece(pcs, totalPiecesForAllocation, totalHouseWeight) ==
    totalHouseWeight \div totalPiecesForAllocation

\* apiService.ts 173: (pcs / totalPiecesForAllocation) * totalHouseWeight
Share(pcs, totalPiecesForAllocation, totalHouseWeight) ==
    (pcs * totalHouseWeight) \div totalPiecesForAllocation

RECURSIVE Allocate(_, _, _, _)
\* apiService.ts 170-177
Allocate(uldIdToTotals, uldPieceCounts, totalPiecesForAllocation, totalHouseWeight) ==
    IF uldPieceCounts = <<>> THEN uldIdToTotals
    ELSE LET uld == Head(uldPieceCounts).k
             pcs == Head(uldPieceCounts).v
             uldTotals == IF MapHas(uldIdToTotals, uld) THEN MapGet(uldIdToTotals, uld)
                          ELSE [pieces |-> 0, weightKg |-> 0]
             share == Share(pcs, totalPiecesForAllocation, totalHouseWeight)
         IN Allocate(MapSet(uldIdToTotals, uld,
                            [pieces |-> uldTotals.pieces + pcs,
                             weightKg |-> uldTotals.weightKg + share]),
                     Tail(uldPieceCounts), totalPiecesForAllocation, totalHouseWeight)

\* apiService.ts 180-194: the HouseShipment of one housebill
HouseShipmentOf(hb, departureAirport, arrivalAirport) ==
    LET hbPieces == ArrayOrEmpty(hb.pieces)
        hbWeight == SumWeights(hbPieces)
    IN [hawb_number |-> Nullish(hb.housebillNumber, ""),
        origin |-> departureAirport,
        destination |-> arrivalAirport,
        pieces |-> Len(hbPieces),
        actual_weight_kg |-> hbWeight,
        chargeable_weight_kg |-> hbWeight]

\* apiService.ts 179-196
HouseShipmentsOf(housebills, departureAirport, arrivalAirport) ==
    [i \in 1..Len(housebills) |->
        HouseShipmentOf(housebills[i], departureAirport, arrivalAirport)]

\* awbNumber == null in the place of !awbNumber
IsNullish(str) == str = Absent

\* apiService.ts 115, 208: !awbNumber, of a string
IsFalsy(str) == str = ""

\* apiService.ts 113-200: one masterbill of the container walk
WalkMasterbill(shipmentsByAwb, masterbill, uldId, departureAirport, arrivalAirport) ==
    LET awbNumber == Nullish(masterbill.masterbillNumber, "")
    IN IF IsFalsy(awbNumber) THEN shipmentsByAwb
       ELSE LET piecesArray == ArrayOrEmpty(masterbill.pieces)
                housebills == ArrayOrEmpty(masterbill.housebills)
                shcs == ShcCodes(masterbill)
                piecesCount == PiecesCount(piecesArray, housebills)
                totalHouseWeight == TotalHouseWeight(housebills)
                existing == IF MapHas(shipmentsByAwb, awbNumber)
                            THEN MapGet(shipmentsByAwb, awbNumber)
                            ELSE NewAccumulator(masterbill)
                uldPieceCounts == UldPieceCounts(piecesArray, piecesCount, uldId)
                totalPiecesForAllocation == TotalPiecesForAllocation(uldPieceCounts)
            IN MapSet(shipmentsByAwb, awbNumber,
                 [existing EXCEPT
                    !.totalPieces = @ + piecesCount,
                    !.totalWeightKg = @ + totalHouseWeight,
                    !.shcs = AddAll(@, shcs),
                    !.uldIdToTotals = Allocate(@, uldPieceCounts,
                                               totalPiecesForAllocation, totalHouseWeight),
                    !.houseShipments = @ \o HouseShipmentsOf(housebills, departureAirport,
                                                             arrivalAirport)])

\* apiService.ts 206-273: one masterbill of the top-level fallback
FallbackMasterbill(shipmentsByAwb, masterbill, departureAirport, arrivalAirport) ==
    LET awbNumber == Nullish(masterbill.masterbillNumber, "")
    IN IF IsFalsy(awbNumber) THEN shipmentsByAwb
       ELSE LET piecesArray == ArrayOrEmpty(masterbill.pieces)
                housebills == ArrayOrEmpty(masterbill.housebills)
                piecesCount == PiecesCount(piecesArray, housebills)
                totalHouseWeight == TotalHouseWeight(housebills)
                existing == IF MapHas(shipmentsByAwb, awbNumber)
                            THEN MapGet(shipmentsByAwb, awbNumber)
                            ELSE NewAccumulator(masterbill)
                uldPieceCounts == UldPieceCounts(piecesArray, piecesCount, "UNKNOWN-ULD")
                totalPiecesForAllocation == TotalPiecesForAllocation(uldPieceCounts)
            IN MapSet(shipmentsByAwb, awbNumber,
                 [existing EXCEPT
                    !.totalPieces = @ + piecesCount,
                    !.totalWeightKg = @ + totalHouseWeight,
                    !.uldIdToTotals = Allocate(@, uldPieceCounts,
                                               totalPiecesForAllocation, totalHouseWeight),
                    !.houseShipments = @ \o HouseShipmentsOf(housebills, departureAirport,
                                                             arrivalAirport)])

RECURSIVE WalkMasterbills(_, _, _, _, _)
\* apiService.ts 113: the masterbills of one container, in order
WalkMasterbills(shipmentsByAwb, masterbills, uldId, departureAirport, arrivalAirport) ==
    IF masterbills = <<>> THEN shipmentsByAwb
    ELSE WalkMasterbills(
            WalkMasterbill(shipmentsByAwb, Head(masterbills), uldId,
                           departureAirport, arrivalAirport),
            Tail(masterbills), uldId, departureAirport, arrivalAirport)

RECURSIVE WalkContainers(_, _, _, _)
\* apiService.ts 87-201: [threw, shipmentsByAwb, processedMasterbills]
WalkContainers(state, containers, departureAirport, arrivalAirport) ==
    IF containers = <<>> \/ state.threw THEN state
    ELSE LET container == Head(containers)
             uldId == Nullish(container.containerNumber, "N/A")
             found == DiscoverMasterbills(container)
         IN IF found.threw THEN [state EXCEPT !.threw = TRUE]
            ELSE WalkContainers(
                    [threw |-> FALSE,
                     shipmentsByAwb |->
                        WalkMasterbills(state.shipmentsByAwb, found.masterbills, uldId,
                                        departureAirport, arrivalAirport),
                     processedMasterbills |->
                        state.processedMasterbills + Len(found.masterbills)],
                    Tail(containers), departureAirport, arrivalAirport)

RECURSIVE FallbackMasterbills(_, _, _, _)
\* apiService.ts 206
FallbackMasterbills(shipmentsByAwb, masterbills, departureAirport, arrivalAirport) ==
    IF masterbills = <<>> THEN shipmentsByAwb
    ELSE FallbackMasterbills(
            FallbackMasterbill(shipmentsByAwb, Head(masterbills),
                               departureAirport, arrivalAirport),
            Tail(masterbills), departureAirport, arrivalAirport)

\* apiService.ts 279-296: one Shipment per entry of shipmentsByAwb
ShipmentOf(entry) ==
    LET acc == entry.v
    IN [awb_number |-> entry.k,
        pieces |-> acc.totalPieces,
        weight |-> [value |-> acc.totalWeightKg, unit |-> "kg"],
        nature_of_goods |-> acc.natureOfGoods,
        special_handling_codes |-> acc.shcs,
        uld_contents |->
            [i \in 1..Len(acc.uldIdToTotals) |->
                [uld_id |-> acc.uldIdToTotals[i].k,
                 pieces |-> acc.uldIdToTotals[i].v.pieces,
                 weight |-> [value |-> acc.uldIdToTotals[i].v.weightKg, unit |-> "kg"]]],
        house_shipments |-> acc.houseShipments]

RECURSIVE SumShipmentPieces(_)
\* apiService.ts 300
SumShipmentPieces(shipments) ==
    IF shipments = <<>> THEN 0
    ELSE Head(shipments).pieces + SumShipmentPieces(Tail(shipments))

\* a reduce that drops its accumulator: the weight of the last shipment
SumShipmentWeightOfLast(shipments) ==
    IF shipments = <<>> THEN 0 ELSE shipments[Len(shipments)].weight.value

RECURSIVE SumShipmentWeight(_)
\* apiService.ts 301 (weight.value is a number, which asNumber returns as is)
SumShipmentWeight(shipments) ==
    IF shipments = <<>> THEN 0
    ELSE Head(shipments).weight.value + SumShipmentWeight(Tail(shipments))

\* apiService.ts 59: apiData?.doc ?? apiData
DocOf(apiData) == IF apiData.hasDoc THEN apiData.doc ELSE apiData.own

\* apiService.ts 55-321: [threw |-> TRUE] is the TypeError thrown out of the
\* heuristic, [threw |-> FALSE, data |-> ManifestData] a normal return
transformManifest(apiData) ==
    LET doc == DocOf(apiData)
        containers == ArrayOrEmpty(doc.containers)
        departureAirport == Nullish(doc.manifest.pointOfLoading, "")
        arrivalAirport == Nullish(doc.manifest.pointOfUnloading, "")
        topLevelMasterbills == ArrayOrEmpty(doc.masterbills)
        walked == WalkContainers(
                    [threw |-> FALSE, shipmentsByAwb |-> <<>>, processedMasterbills |-> 0],
                    containers, departureAirport, arrivalAirport)
        shipmentsByAwb ==
            IF walked.processedMasterbills = 0 /\ Len(topLevelMasterbills) > 0
            THEN FallbackMasterbills(walked.shipmentsByAwb, topLevelMasterbills,
                                     departureAirport, arrivalAirport)
            ELSE walked.shipmentsByAwb
        shipments == [i \in 1..Len(shipmentsByAwb) |-> ShipmentOf(shipmentsByAwb[i])]
    IN IF walked.threw
       THEN [threw |-> TRUE,
             data |-> [flight_details |-> [departure_airport |-> "", arrival_airport |-> ""],
                       shipments |-> <<>>, total_pieces |-> 0,
                       total_weight |-> [value |-> 0, unit |-> "kg"]]]
       ELSE [threw |-> FALSE,
             data |-> [flight_details |-> [departure_airport |-> departureAirport,
                                           arrival_airport |-> arrivalAirport],
                       shipments |-> shipments,
                       total_pieces |-> SumShipmentPieces(shipments),
                       total_weight |-> [value |-> SumShipmentWeight(shipments),
                                         unit |-> "kg"]]]

(***************************************************************************)
(* The raw documents the transformation is run on.                         *)
(***************************************************************************)
Mb(number, nature, shcs, pieces, housebills) ==
    [isNull |-> FALSE, masterbillNumber |-> number, natureOfGoods |-> nature,
     shcs |-> shcs, pieces |-> pieces, housebills |-> housebills]

\* a null element of a masterbills array
NullMb ==
    [isNull |-> TRUE, masterbillNumber |-> Absent, natureOfGoods |-> Absent,
     shcs |-> NotArr, pieces |-> NotArr, housebills |-> NotArr]

\* an object with none of the keys the code reads
NoKeysMb == [NullMb EXCEPT !.isNull = FALSE]

Hb(number, pieces) == [housebillNumber |-> number, pieces |-> pieces]

HbPieceWeights == {Undef, Num(3), Str(<<"2">>), Str(<<"k", "g">>)}

HbPieces == {[weight |-> w] : w \in HbPieceWeights}

Housebills ==
    {Hb("H1", p) : p \in {NotArr} \cup {Arr(l) : l \in SeqsUpTo(HbPieces, MaxHbPieces)}}

MbPieces == {[containerNumber |-> c] : c \in {Absent, "U2"}}

MbPieceLists == {NotArr} \cup {Arr(l) : l \in SeqsUpTo(MbPieces, MaxMbPieces)}

PER == Arr(<<[code |-> "PER"]>>)

\* every shape of the pieces and housebills of a masterbill with at most one
\* housebill
RichMasterbills ==
    {Mb(n, "PERISHABLES", PER, p, h) :
        n \in {Absent, "", "A"}, p \in MbPieceLists,
        h \in {NotArr, Arr(<<>>)} \cup {Arr(<<hb>>) : hb \in Housebills}}

TwoHousebills ==
    Arr(<<Hb("H1", Arr(<<[weight |-> Num(3)]>>)),
          Hb(Absent, Arr(<<[weight |-> Num(3)], [weight |-> Str(<<"2">>)]>>))>>)

TwoPieces == Arr(<<[containerNumber |-> Absent], [containerNumber |-> "U2"]>>)

\* the masterbills that documents with several masterbills are built from
SmallMasterbills ==
    {Mb(n, "PERISHABLES", PER, TwoPieces, TwoHousebills) : n \in {"", "A", "B"}}
    \cup {Mb(n, Absent, NotArr, NotArr, TwoHousebills) : n \in {"", "A", "B"}}
    \cup {Mb(n, Absent, NotArr, TwoPieces, NotArr) : n \in {"", "A", "B"}}
    \cup {Mb(n, "GENERAL", PER, NotArr, NotArr) : n \in {"", "A", "B"}}

MbA == Mb("A", "GENERAL", PER, NotArr, TwoHousebills)

Container(number, key, value) == [containerNumber |-> number, key |-> key, value |-> value]

ManifestTLV == [pointOfLoading |-> "TLV", pointOfUnloading |-> "JFK"]
NoManifest == [pointOfLoading |-> Absent, pointOfUnloading |-> Absent]

Doc(manifest, containers, masterbills) ==
    [manifest |-> manifest, containers |-> containers, masterbills |-> masterbills]

EmptyDoc == Doc(NoManifest, NotArr, NotArr)

\* the ways a list M of masterbills can sit in a document
Layouts(M) ==
    {Doc(ManifestTLV, Arr(<<Container("U1", "masterbills", Arr(M))>>), NotArr),
     Doc(ManifestTLV, Arr(<<Container("U1", "masterbills", Arr(M))>>), Arr(<<MbA>>)),
     Doc(ManifestTLV, Arr(<<Container("U1", "masterbill", Arr(<<Head(M)>>)),
                            Container("U2", "cargo", Arr(Tail(M)))>>), NotArr),
     Doc(ManifestTLV, NotArr, Arr(M)),
     Doc(ManifestTLV, Arr(<<Container("U1", "masterbills", Arr(<<>>))>>), Arr(M))}

\* documents with missing, null or misplaced parts
MalformedDocs ==
    {Doc(mf, Arr(<<Container(num, key, value)>> \o more), top) :
        mf \in {ManifestTLV, NoManifest},
        num \in {Absent, "U1"},
        key \in {"masterbills", "masterbill", "cargo", "none"},
        value \in {NotArr, Arr(<<>>), Arr(<<NullMb>>), Arr(<<NullMb, MbA>>),
                   Arr(<<MbA, NullMb>>), Arr(<<NoKeysMb, MbA>>), Arr(<<MbA>>)},
        more \in {<<>>, <<Container("U2", "cargo", Arr(<<NullMb>>))>>},
        top \in {NotArr, Arr(<<MbA>>), Arr(<<NullMb, MbA>>)}}
    \cup {EmptyDoc, Doc(NoManifest, Arr(<<>>), Arr(<<>>))}

\* the response body that is the document itself, and the one that holds it
\* under `doc`
Plain(d) == [hasDoc |-> FALSE, doc |-> EmptyDoc, own |-> d]
Wrapped(d) == [hasDoc |-> TRUE, doc |-> d, own |-> Doc(ManifestTLV, NotArr, Arr(<<MbA>>))]

\* the response bodies: a document with one masterbill of any shape, with
\* several small masterbills, or a malformed one
IsBody(body) ==
    \/ \E m \in RichMasterbills : \E d \in Layouts(<<m>>) : body = Plain(d)
    \/ \E n \in 2..MaxMasterbills : \E M \in [1..n -> SmallMasterbills] :
          \E d \in Layouts(M) : body = Plain(d)
    \/ \E d \in MalformedDocs : body = Plain(d) \/ body = Wrapped(d)

(***************************************************************************)
(* State.                                                                  *)
(***************************************************************************)
VARIABLES
    raw,              \* the body of the upstream response to get-manifest
    responseOk,       \* response.ok
    pc,               \* "fetching" -> "settled" -> "done"
    outcome,          \* how the promise of getManifestDetails settled
    currentManifest,  \* App state
    detailError,      \* App state
    chartRows,        \* applyFilters: its rows
    chartFilters,     \* applyFilters: its filters (NotArr when absent)
    filteredRows,     \* applyFilters: what it returned
    fpc,              \* "call" -> "returned"
    manifestData,     \* the manifest the assistant charts
    spec0,            \* the chart spec generateChartDataFromSpec is first called with
    specArg,          \* the spec of its current invocation
    calls,            \* the invocations of generateChartDataFromSpec so far
    chartData,        \* what it returned
    cpc,              \* "call" -> ("recurse" ->) "returned", or "build" -> "built"
    option,           \* the histogram buildEchartsOption built
    listFilters,      \* App state: filters, the filters of the list
    now,              \* the time in ms
    timers,           \* the pending timers of setTimeout
    timeout,          \* debounce: the id of the timer it set last, 0 for null
    changes,          \* history: the filters the effect has seen, with the time
    invoked,          \* history: the calls of fetchManifests, with the time
    inflight,         \* the calls of getManifests that have not settled
    applied,          \* history: the ids of the settled calls, in order
    manifests,        \* App state
    paginationInfo,   \* App state
    isListLoading,    \* App state
    listError,        \* App state, "" for null
    view,             \* App state: "list" or "detail"
    selectedMawb,     \* App state: the AWB number of the shipment, <<>> for null
    selectedItem,     \* App state: the id of the ULD or house shipment, <<>> for null
    searchTerm,       \* App state
    activeTab,        \* App state
    isDetailLoading,  \* App state
    detailFetch,      \* the ids of the calls of getManifestDetails that have not settled
    opens,            \* history: the calls of handleViewDetails
    lastHandler,      \* history: the handler that ran last
    req,              \* proxy: the request handle was called with
    upstream,         \* proxy, history: how the external API behaved
    ppc,              \* proxy: "handle" -> ("fetch" -> ("body" ->)) "done"
    sent,             \* proxy: the responses sent on res, in order
    upstreamCalls,    \* proxy, history: the calls of fetch
    messages,         \* ChatAssistant state
    input,            \* ChatAssistant state
    isLoading,        \* ChatAssistant state
    chat,             \* ChatAssistant state: "null" or "chat"
    hasManifest,      \* ChatAssistant prop: manifestData is not null
    hpc,              \* handleSend: "idle" -> "send" -> "stream" -> "idle"
    aiAccumulated,    \* handleSend: the chunks received
    sends,            \* history: the calls of handleSend that passed its guard
    failures,         \* history: the calls of handleSend that ended in its catch
    isOpen,           \* ChatAssistant prop
    panelManifest,    \* ChatAssistant prop: manifestData.id, "" for null
    actionMessages,   \* ChatAssistant state: the action list of each message, <<>> for none
    lastActionsHashRef, \* ChatAssistant ref
    apc,              \* the effect to run next: "idle", "first" or "second"
    trigger,          \* history: what made the effects run
    executed,         \* history: the automatic calls of openAction
    runExecs,         \* history: the automatic calls of openAction in this commit
    modalView,        \* ChatAssistant state
    isModalOpen,      \* ChatAssistant state
    suggestHashRef,   \* ChatAssistant ref
    aiSuggestedActions, \* ChatAssistant state
    isSuggesting,     \* ChatAssistant state
    attempt,          \* fetchAiSuggestions: the counter of its loop
    got,              \* fetchAiSuggestions: the list obtained, <<>> for null
    spc,              \* fetchAiSuggestions: "idle" -> "try" -> ("delay" -> "try")* -> "idle"
    outcomes,         \* history: how each attempt of this invocation ended
    invocations       \* history: the calls of fetchAiSuggestions

\* the variables of SpecTransform
tvars == <<raw, responseOk, pc, outcome, currentManifest, detailError>>

\* the variables of SpecFilter
fvars == <<chartRows, chartFilters, filteredRows, fpc>>

\* the variables of SpecChart
cvars == <<manifestData, spec0, specArg, calls, chartData, cpc, option>>

\* the variables of SpecList
listRest == <<listFilters, now, timers, timeout, changes, invoked, inflight, applied,
             manifests, paginationInfo, isListLoading>>
lvars == <<listRest, listError>>

\* the variables of SpecNav, with currentManifest, detailError and the list
nvars == <<view, selectedMawb, selectedItem, searchTerm, activeTab, isDetailLoading,
           detailFetch, opens, lastHandler>>

\* the variables of SpecProxy
pvars == <<req, upstream, ppc, sent, upstreamCalls>>

\* the variables of the proxy and of the assistant
\* the variables of SpecChat
hvars == <<messages, input, isLoading, chat, hasManifest, hpc, aiAccumulated, sends,
           failures>>

\* the props of the assistant
kvars == <<isOpen, panelManifest>>

\* the variables of SpecAutoExecute, with the props
avars == <<actionMessages, lastActionsHashRef, apc, trigger, executed, runExecs, modalView,
           isModalOpen>>

\* the variables of SpecSuggest, with the props
svars == <<suggestHashRef, aiSuggestedActions, isSuggesting, attempt, got, spc, outcomes,
           invocations>>

xvars == <<pvars, hvars, kvars, avars, svars>>

vars == <<tvars, fvars, cvars, lvars, nvars, xvars>>

\* what the actions of each specification leave alone
notTransform == <<fvars, cvars, lvars, nvars, xvars>>
notFilter == <<tvars, cvars, lvars, nvars, xvars>>
notChart == <<tvars, fvars, lvars, nvars, xvars>>
notList == <<tvars, fvars, cvars, nvars, xvars>>
notNav == <<raw, responseOk, pc, outcome, fvars, cvars, listRest, xvars>>
appVars == <<tvars, fvars, cvars, lvars, nvars>>
notProxy == <<appVars, hvars, kvars, avars, svars>>
notChat == <<appVars, pvars, kvars, avars, svars>>
notAutoExecute == <<appVars, pvars, hvars, svars>>
notSuggest == <<appVars, pvars, hvars, avars>>

\* SpecTransform leaves the filter engine alone
FilterIdle ==
    /\ chartRows = <<>>
    /\ chartFilters = NotArr
    /\ filteredRows = <<>>
    /\ fpc = "idle"

\* App.tsx 13, 46-52: the detail state of a new App
NavIdle ==
    /\ view = "list"
    /\ selectedMawb = <<>>
    /\ selectedItem = <<>>
    /\ searchTerm = <<>>
    /\ activeTab = "details"
    /\ isDetailLoading = FALSE
    /\ detailFetch = {}
    /\ opens = 0
    /\ lastHandler = "none"

\* App.tsx 17-33: the list state of a new App, with no effect run
ListIdle ==
    /\ listFilters = [manifestNo |-> "", page |-> 1]
    /\ now = 0
    /\ timers = {}
    /\ timeout = 0
    /\ changes = <<>>
    /\ invoked = <<>>
    /\ inflight = {}
    /\ applied = <<>>
    /\ manifests = <<>>
    /\ paginationInfo = [page |-> 1, totalPages |-> 1, hasNextPage |-> FALSE,
                         hasPrevPage |-> FALSE]
    /\ isListLoading = TRUE
    /\ listError = ""

\* the chart data shaper is not running
ChartIdle ==
    /\ manifestData = "none"
    /\ spec0 = "none"
    /\ specArg = "none"
    /\ calls = 0
    /\ chartData = <<>>
    /\ cpc = "idle"
    /\ option = "none"

NoData ==
    [flight_details |-> [departure_airport |-> "", arrival_airport |-> ""],
     shipments |-> <<>>, total_pieces |-> 0, total_weight |-> [value |-> 0, unit |-> "kg"]]

Pending == [kind |-> "pending", data |-> NoData, message |-> ""]
Fulfilled(data) == [kind |-> "fulfilled", data |-> data, message |-> ""]
Rejected(message) == [kind |-> "rejected", data |-> NoData, message |-> message]

\* null, for currentManifest
NoManifestData == [isNull |-> TRUE, data |-> NoData]

\* no detail fetch is under way
TransformIdle ==
    /\ raw = Plain(EmptyDoc)
    /\ responseOk = FALSE
    /\ pc = "idle"
    /\ outcome = Pending
    /\ currentManifest = NoManifestData
    /\ detailError = ""

\* the external API has not been called
NoUpstream == [fetch |-> "pending", status |-> 0, text |-> "", read |-> "pending"]

\* no request has reached the proxy
ProxyIdle ==
    /\ req = "none"
    /\ upstream = NoUpstream
    /\ ppc = "idle"
    /\ sent = <<>>
    /\ upstreamCalls = 0

\* Modal.tsx 161-164: the chat state of a new ChatAssistant
ChatIdle ==
    /\ messages = <<>>
    /\ input = <<>>
    /\ isLoading = FALSE
    /\ chat = "null"
    /\ hasManifest = FALSE
    /\ hpc = "idle"
    /\ aiAccumulated = <<>>
    /\ sends = 0
    /\ failures = 0

\* Modal.tsx 161, 211, 930: the state of a new ChatAssistant that was never opened
PanelIdle ==
    /\ isOpen = FALSE
    /\ panelManifest = ""
    /\ actionMessages = <<>>
    /\ lastActionsHashRef = <<>>
    /\ apc = "idle"
    /\ trigger = "none"
    /\ executed = <<>>
    /\ runExecs = 0
    /\ modalView = "none"
    /\ isModalOpen = FALSE

\* Modal.tsx 972-974: nothing was suggested
SuggestIdle ==
    /\ suggestHashRef = <<>>
    /\ aiSuggestedActions = <<>>
    /\ isSuggesting = FALSE
    /\ attempt = 0
    /\ got = <<>>
    /\ spc = "idle"
    /\ outcomes = <<>>
    /\ invocations = 0

\* the proxy and the assistant are not running
OthersIdle == ProxyIdle /\ ChatIdle /\ PanelIdle /\ SuggestIdle

\* the App is as it was constructed
AppIdle == TransformIdle /\ FilterIdle /\ ChartIdle /\ ListIdle /\ NavIdle

InitTransform ==
    /\ \/ responseOk = TRUE /\ IsBody(raw)
       \/ responseOk = FALSE /\ raw = Plain(EmptyDoc)
    /\ pc = "fetching"
    /\ outcome = Pending
    /\ currentManifest = NoManifestData
    /\ detailError = ""
    /\ FilterIdle
    /\ ChartIdle
    /\ ListIdle
    /\ NavIdle
    /\ OthersIdle

\* apiService.ts 328-335: a non-2xx response rejects with the upstream message
GetManifestDetailsNotOk ==
    /\ pc = "fetching"
    /\ ~responseOk
    /\ pc' = "settled"
    /\ outcome' = Rejected("upstream")
    /\ UNCHANGED <<raw, responseOk, currentManifest, detailError>>
    /\ UNCHANGED notTransform

\* apiService.ts 337-338: a 2xx response is transformed; an exception of
\* transformManifest rejects the promise
GetManifestDetailsOk ==
    /\ pc = "fetching"
    /\ responseOk
    /\ pc' = "settled"
    /\ LET r == transformManifest(raw)
       IN outcome' = IF r.threw THEN Rejected("TypeError") ELSE Fulfilled(r.data)
    /\ UNCHANGED <<raw, responseOk, currentManifest, detailError>>
    /\ UNCHANGED notTransform

\* App.tsx 117-118: the await of handleViewDetails resumes with the data
HandleViewDetailsData ==
    /\ pc = "settled"
    /\ outcome.kind = "fulfilled"
    /\ pc' = "done"
    /\ currentManifest' = [isNull |-> FALSE, data |-> outcome.data]
    /\ UNCHANGED <<raw, responseOk, outcome, detailError>>
    /\ UNCHANGED notTransform

\* App.tsx 134-136: the catch of handleViewDetails
HandleViewDetailsCatch ==
    /\ pc = "settled"
    /\ outcome.kind = "rejected"
    /\ pc' = "done"
    /\ detailError' = outcome.message
    /\ currentManifest' = NoManifestData
    /\ UNCHANGED <<raw, responseOk, outcome>>
    /\ UNCHANGED notTransform

NextTransform ==
    \/ GetManifestDetailsNotOk
    \/ GetManifestDetailsOk
    \/ HandleViewDetailsData
    \/ HandleViewDetailsCatch

SpecTransform == InitTransform /\ [][NextTransform]_vars

(***************************************************************************)
(* What the properties are stated with: the masterbills a document offers  *)
(* to the aggregation, and the piece counts and weights read off them      *)
(* directly (not through the operators of transformManifest).              *)
(***************************************************************************)
Returned == pc # "fetching" /\ outcome.kind = "fulfilled"

Result == outcome.data

RECURSIVE Total(_)
\* the sum of a sequence of numbers
Total(xs) == IF Len(xs) = 0 THEN 0 ELSE xs[Len(xs)] + Total(SubSeq(xs, 1, Len(xs) - 1))

\* the masterbills of the containers, each with its container's id
RECURSIVE ContainerSources(_)
ContainerSources(containers) ==
    IF containers = <<>> THEN <<>>
    ELSE LET c == Head(containers)
             list == DiscoverMasterbills(c).masterbills
         IN [i \in 1..Len(list) |->
                [mb |-> list[i], uld |-> Nullish(c.containerNumber, "N/A"), path |-> "walk"]]
            \o ContainerSources(Tail(containers))

\* the masterbills that are aggregated: those of the containers, or the
\* top-level ones when the containers hold none
Sources(body) ==
    LET doc == DocOf(body)
        walk == ContainerSources(ArrayOrEmpty(doc.containers))
        top == ArrayOrEmpty(doc.masterbills)
    IN IF walk = <<>>
       THEN [i \in 1..Len(top) |-> [mb |-> top[i], uld |-> "UNKNOWN-ULD", path |-> "fallback"]]
       ELSE walk

AwbOf(src) == Nullish(src.mb.masterbillNumber, "")

HasAwb(src) == AwbOf(src) # ""

Numbered(srcs) == SelectSeq(srcs, HasAwb)

OfAwb(srcs, awb) == SelectSeq(srcs, LAMBDA x : AwbOf(x) = awb)

\* the value a raw weight stands for, in kg
ExpectedKg(w) ==
    IF w.t = "number" THEN w.n
    ELSE IF w = Str(<<"2">>) THEN 2
    ELSE 0

ExpectedHbPieces(hb) == IF hb.pieces.isArray THEN Len(hb.pieces.items) ELSE 0

ExpectedHbWeight(hb) ==
    IF hb.pieces.isArray
    THEN WScale * Total([i \in 1..Len(hb.pieces.items) |-> ExpectedKg(hb.pieces.items[i].weight)])
    ELSE 0

HousebillsOf(mb) == IF mb.housebills.isArray THEN mb.housebills.items ELSE <<>>

OwnPieces(mb) == IF mb.pieces.isArray THEN mb.pieces.items ELSE <<>>

ExpectedPieces(mb) ==
    IF OwnPieces(mb) # <<>> THEN Len(OwnPieces(mb))
    ELSE Total([i \in 1..Len(HousebillsOf(mb)) |-> ExpectedHbPieces(HousebillsOf(mb)[i])])

ExpectedWeight(mb) ==
    Total([i \in 1..Len(HousebillsOf(mb)) |-> ExpectedHbWeight(HousebillsOf(mb)[i])])

\* the pieces of one source that belong to ULD u
ExpectedUldPieces(src, u) ==
    IF OwnPieces(src.mb) # <<>>
    THEN Cardinality({i \in 1..Len(OwnPieces(src.mb)) :
                        Nullish(OwnPieces(src.mb)[i].containerNumber, src.uld) = u})
    ELSE IF u = src.uld THEN ExpectedPieces(src.mb) ELSE 0

\* the ULDs one source names
ExpectedUlds(src) ==
    IF OwnPieces(src.mb) # <<>>
    THEN {Nullish(OwnPieces(src.mb)[i].containerNumber, src.uld) :
            i \in 1..Len(OwnPieces(src.mb))}
    ELSE {src.uld}

\* the divisor of the allocation
ExpectedDivisor(src) == IF ExpectedPieces(src.mb) = 0 THEN 1 ELSE ExpectedPieces(src.mb)

\* total_house_weight * uld_pieces / total_pieces_for_allocation, which is
\* exact in units of 1/WScale kg (ExactShares)
ExpectedUldWeight(src, u) ==
    (ExpectedWeight(src.mb) * ExpectedUldPieces(src, u)) \div ExpectedDivisor(src)

ExactShares(srcs) ==
    \A i \in 1..Len(srcs) : \A u \in ExpectedUlds(srcs[i]) :
        (ExpectedWeight(srcs[i].mb) * ExpectedUldPieces(srcs[i], u))
            % ExpectedDivisor(srcs[i]) = 0

(***************************************************************************)
(* C1. The totals of the manifest are the sums over its shipments:         *)
(* total_pieces is the sum of shipments[].pieces and total_weight.value    *)
(* the sum of shipments[].weight.value.                                    *)
(***************************************************************************)
C1_TotalsAreSums ==
    Returned =>
        /\ Result.total_pieces =
             Total([i \in 1..Len(Result.shipments) |-> Result.shipments[i].pieces])
        /\ Result.total_weight.value =
             Total([i \in 1..Len(Result.shipments) |-> Result.shipments[i].weight.value])

\* a manifest of two shipments that both have pieces and weight
C1_Witness ==
    /\ Returned
    /\ Len(Result.shipments) = 2
    /\ \A i \in 1..2 : Result.shipments[i].pieces > 0 /\ Result.shipments[i].weight.value > 0
    /\ Result.total_pieces > 0
    /\ Result.total_weight.value > 0

(***************************************************************************)
(* C2. For every shipment returned whose uld_contents is non-empty, the    *)
(* weights of its uld_contents add up to the shipment's weight, also when  *)
(* the divisor of the allocation is guarded to 1.                          *)
(***************************************************************************)
C2_UldWeightConserved ==
    Returned =>
        \A i \in 1..Len(Result.shipments) :
            LET s == Result.shipments[i]
            IN Len(s.uld_contents) > 0 =>
                 Total([j \in 1..Len(s.uld_contents) |-> s.uld_contents[j].weight.value])
                    = s.weight.value

\* a shipment whose weight is split over two ULDs, next to a shipment
\* without pieces (divisor guarded to 1)
C2_Witness ==
    /\ Returned
    /\ \E i \in 1..Len(Result.shipments) :
          LET s == Result.shipments[i]
          IN /\ Len(s.uld_contents) = 2
             /\ s.weight.value = Kg(8)
             /\ \A j \in 1..2 : s.uld_contents[j].weight.value > 0
    /\ \E i \in 1..Len(Result.shipments) :
          LET s == Result.shipments[i]
          IN Len(s.uld_contents) = 1 /\ s.uld_contents[1].pieces = 0

(***************************************************************************)
(* C3. Whatever the raw document of a 2xx response, transformManifest      *)
(* throws nothing and returns a ManifestData, so that getManifestDetails   *)
(* fulfils and handleViewDetails shows no detailError.                     *)
(***************************************************************************)
C3_TransformNeverThrows ==
    (pc # "fetching" /\ responseOk) =>
        /\ outcome.kind = "fulfilled"
        /\ pc = "done" => detailError = ""

(***************************************************************************)
(* C4. A masterbill whose masterbillNumber is empty or missing adds        *)
(* nothing to the output: no shipment carries an empty number, and the     *)
(* pieces, the weight, the house shipments and the ULDs of the output are  *)
(* those of the numbered masterbills alone.                                *)
(***************************************************************************)
C4_UnnumberedAddsNothing ==
    Returned =>
        LET num == Numbered(Sources(raw))
            ships == Result.shipments
        IN /\ \A i \in 1..Len(ships) : ships[i].awb_number \notin {"", Absent}
           /\ Result.total_pieces = Total([i \in 1..Len(num) |-> ExpectedPieces(num[i].mb)])
           /\ Result.total_weight.value =
                Total([i \in 1..Len(num) |-> ExpectedWeight(num[i].mb)])
           /\ Total([i \in 1..Len(ships) |-> Len(ships[i].house_shipments)])
                = Total([i \in 1..Len(num) |-> Len(HousebillsOf(num[i].mb))])
           /\ \A i \in 1..Len(ships) :
                {ships[i].uld_contents[j].uld_id : j \in 1..Len(ships[i].uld_contents)}
                    = UNION {ExpectedUlds(num[k]) :
                                k \in {k \in 1..Len(num) : AwbOf(num[k]) = ships[i].awb_number}}

\* an unnumbered masterbill with pieces, housebills and weight of its own
UnnumberedWithCargo(src) ==
    /\ ~HasAwb(src)
    /\ OwnPieces(src.mb) # <<>>
    /\ HousebillsOf(src.mb) # <<>>
    /\ ExpectedWeight(src.mb) > 0

\* the container walk met an unnumbered masterbill with cargo, next to a
\* numbered one
C4_Witness ==
    /\ Returned
    /\ Len(Result.shipments) > 0
    /\ \E i \in 1..Len(Sources(raw)) :
          Sources(raw)[i].path = "walk" /\ UnnumberedWithCargo(Sources(raw)[i])

\* the same on the top-level fallback path
C4_WitnessFallback ==
    /\ Returned
    /\ Len(Result.shipments) > 0
    /\ \E i \in 1..Len(Sources(raw)) :
          Sources(raw)[i].path = "fallback" /\ UnnumberedWithCargo(Sources(raw)[i])

C6_PieceCount ==
    Returned =>
        LET num == Numbered(Sources(raw))
        IN \A i \in 1..Len(Result.shipments) :
              LET mine == OfAwb(num, Result.shipments[i].awb_number)
                  count(mb) ==
                      IF mb.pieces.isArray /\ Len(mb.pieces.items) > 0
                      THEN Len(mb.pieces.items)
                      ELSE Total([h \in 1..Len(HousebillsOf(mb)) |->
                                    ExpectedHbPieces(HousebillsOf(mb)[h])])
              IN Result.shipments[i].pieces = Total([k \in 1..Len(mine) |-> count(mine[k].mb)])

\* one AWB with a masterbill counted by its own pieces[] (which differ in
\* number from those of its housebills) and one counted by its housebills
C6_Witness ==
    /\ Returned
    /\ \E i, j \in 1..Len(Sources(raw)) :
          LET a == Sources(raw)[i]
              b == Sources(raw)[j]
          IN /\ HasAwb(a)
             /\ AwbOf(a) = AwbOf(b)
             /\ Len(OwnPieces(a.mb)) = 2
             /\ Total([h \in 1..Len(HousebillsOf(a.mb)) |->
                         ExpectedHbPieces(HousebillsOf(a.mb)[h])]) = 3
             /\ OwnPieces(b.mb) = <<>>
             /\ Len(HousebillsOf(b.mb)) = 2
             /\ ExpectedPieces(b.mb) = 3
    /\ \E i \in 1..Len(Result.shipments) : Result.shipments[i].pieces = 5

(***************************************************************************)
(* C7. In the container walk each piece of a non-empty pieces[] counts 1   *)
(* for the ULD its containerNumber names, or for the enclosing container   *)
(* when it names none; with an empty pieces[] the whole piece count goes   *)
(* to the enclosing container.  Each such ULD receives the weight          *)
(* total_house_weight * uld_pieces / total_pieces_for_allocation, the      *)
(* divisor being 1 when the total is 0.                                    *)
(***************************************************************************)
OnWalk == \E i \in 1..Len(Sources(raw)) : Sources(raw)[i].path = "walk"

C7_UldAttribution ==
    (Returned /\ OnWalk) =>
        LET num == Numbered(Sources(raw))
        IN /\ ExactShares(num)
           /\ \A i \in 1..Len(Result.shipments) :
                LET mine == OfAwb(num, Result.shipments[i].awb_number)
                    ulds == Result.shipments[i].uld_contents
                IN /\ {ulds[a].uld_id : a \in 1..Len(ulds)}
                        = UNION {ExpectedUlds(mine[k]) : k \in 1..Len(mine)}
                   /\ \A a \in 1..Len(ulds) :
                        /\ ulds[a].pieces =
                             Total([k \in 1..Len(mine) |->
                                      ExpectedUldPieces(mine[k], ulds[a].uld_id)])
                        /\ ulds[a].weight.value =
                             Total([k \in 1..Len(mine) |->
                                      ExpectedUldWeight(mine[k], ulds[a].uld_id)])

\* a masterbill with weight whose pieces[] holds a piece that names its
\* container and one that does not, and a masterbill counted by its
\* housebills
C7_Witness ==
    /\ Returned
    /\ OnWalk
    /\ \E i, j \in 1..Len(Sources(raw)) :
          LET a == Sources(raw)[i]
              b == Sources(raw)[j]
          IN /\ HasAwb(a) /\ HasAwb(b)
             /\ ExpectedWeight(a.mb) > 0
             /\ \E p, q \in 1..Len(OwnPieces(a.mb)) :
                   /\ OwnPieces(a.mb)[p].containerNumber = Absent
                   /\ OwnPieces(a.mb)[q].containerNumber \notin {Absent, a.uld}
             /\ OwnPieces(b.mb) = <<>>
             /\ ExpectedPieces(b.mb) > 0
             /\ ExpectedWeight(b.mb) > 0
    /\ \E i \in 1..Len(Result.shipments) : Len(Result.shipments[i].uld_contents) = 2

(***************************************************************************)
(* C8. The top-level fallback is equivalent to the container walk: a       *)
(* document without containers and with top-level masterbills M gives the  *)
(* same ManifestData as the document that holds M in one container whose   *)
(* containerNumber is "UNKNOWN-ULD".                                       *)
(***************************************************************************)
TopLevelOnly ==
    /\ ArrayOrEmpty(DocOf(raw).containers) = <<>>
    /\ ArrayOrEmpty(DocOf(raw).masterbills) # <<>>

\* the document of raw with its top-level masterbills inside one container
InOneContainer ==
    [hasDoc |-> FALSE, doc |-> EmptyDoc,
     own |-> Doc(DocOf(raw).manifest,
                 Arr(<<Container("UNKNOWN-ULD", "masterbills", DocOf(raw).masterbills)>>),
                 NotArr)]

C8_FallbackEqualsWalk ==
    (Returned /\ TopLevelOnly) => Result = transformManifest(InOneContainer).data

(***************************************************************************)
(* C9. Every housebill under a masterbill with a non-empty AWB number      *)
(* gives exactly one HouseShipment of that AWB, in order, with pieces the  *)
(* length of the housebill's pieces[], actual_weight_kg and                *)
(* chargeable_weight_kg the sum of its pieces' weights (a weight that is   *)
(* missing or not numeric counting 0) and origin and destination the       *)
(* manifest's pointOfLoading and pointOfUnloading ('' when missing).       *)
(***************************************************************************)
ExpectedHouseShipment(hb) ==
    [hawb_number |-> IF hb.housebillNumber = Absent THEN "" ELSE hb.housebillNumber,
     origin |-> IF DocOf(raw).manifest.pointOfLoading = Absent THEN ""
                ELSE DocOf(raw).manifest.pointOfLoading,
     destination |-> IF DocOf(raw).manifest.pointOfUnloading = Absent THEN ""
                     ELSE DocOf(raw).manifest.pointOfUnloading,
     pieces |-> ExpectedHbPieces(hb),
     actual_weight_kg |-> ExpectedHbWeight(hb),
     chargeable_weight_kg |-> ExpectedHbWeight(hb)]

RECURSIVE ExpectedHouseShipments(_)
ExpectedHouseShipments(srcs) ==
    IF srcs = <<>> THEN <<>>
    ELSE [h \in 1..Len(HousebillsOf(Head(srcs).mb)) |->
            ExpectedHouseShipment(HousebillsOf(Head(srcs).mb)[h])]
         \o ExpectedHouseShipments(Tail(srcs))

C9_HouseShipments ==
    Returned =>
        \A i \in 1..Len(Result.shipments) :
            Result.shipments[i].house_shipments =
                ExpectedHouseShipments(
                    OfAwb(Numbered(Sources(raw)), Result.shipments[i].awb_number))

\* a shipment with house shipments of a numeric weight, of a numeric string
\* and of a weight that counts 0
C9_Witness ==
    /\ Returned
    /\ \E i \in 1..Len(Sources(raw)) :
          /\ HasAwb(Sources(raw)[i])
          /\ \E h \in 1..Len(HousebillsOf(Sources(raw)[i].mb)) :
                LET list == ArrayOrEmpty(HousebillsOf(Sources(raw)[i].mb)[h].pieces)
                IN /\ Len(list) = 2
                   /\ list[1].weight = Str(<<"2">>)
                   /\ list[2].weight \in {Undef, Str(<<"k", "g">>)}
    /\ \E i \in 1..Len(Result.shipments) :
          \E h \in 1..Len(Result.shipments[i].house_shipments) :
              LET hs == Result.shipments[i].house_shipments[h]
              IN hs.pieces = 2 /\ hs.actual_weight_kg = Kg(2) /\ hs.origin = "TLV"

(***************************************************************************)
(* The filter engine of the chart pipeline (components/Modal.tsx).         *)
(*                                                                         *)
(* A row is a record of JS values.  Besides the scalars, a value can be    *)
(* the {value: n} wrapper of a weight, [t |-> "object", n |-> n], the only *)
(* nested object getSourceRows builds.  A path is the sequence of keys of  *)
(* path.split('.'), empty for a missing or empty path.  A filter is        *)
(* [field, op, value, items]: value is a scalar, or the tag Array with the *)
(* elements in items.                                                      *)
(***************************************************************************)
Obj(n) == [t |-> "object", n |-> n, s |-> <<>>]
Array == [t |-> "array", n |-> 0, s |-> <<>>]

\* acc == null ? undefined : acc[key], on a value that is not a row
Prop(acc, key) == IF acc.t = "object" /\ key = "value" THEN Num(acc.n) ELSE Undef

RECURSIVE ReducePath(_, _)
ReducePath(acc, keys) ==
    IF keys = <<>> THEN acc ELSE ReducePath(Prop(acc, Head(keys)), Tail(keys))

\* Modal.tsx 401-416
getValueByPath(obj, path) ==
    IF path = <<>> THEN Undef
    ELSE LET first == IF path[1] \in DOMAIN obj THEN obj[path[1]] ELSE Undef
             result == IF Len(path) = 1 THEN first ELSE ReducePath(first, Tail(path))
         IN IF result.t = "object" THEN Num(result.n) ELSE result

\* Number(v): [finite |-> FALSE] is NaN
ToNumber(v) ==
    IF v.t = "number" THEN [finite |-> TRUE, n |-> v.n]
    ELSE IF v.t = "string" THEN NumberOfString(v.s)
    ELSE [finite |-> FALSE, n |-> 0]

RECURSIVE DigitsOf(_)
DigitsOf(n) == IF n < 10 THEN <<Digits[n + 1]>> ELSE Append(DigitsOf(n \div 10), Digits[(n % 10) + 1])

\* String(v), of a string, a natural number or undefined
StringOf(v) ==
    IF v.t = "string" THEN v.s
    ELSE IF v.t = "number" THEN DigitsOf(v.n)
    ELSE <<"u", "n", "d", "e", "f", "i", "n", "e", "d">>

UpperCase == <<"A", "B", "C", "D", "E", "F", "G", "H", "I", "J", "K", "L", "M",
               "N", "O", "P", "Q", "R", "S", "T", "U", "V", "W", "X", "Y", "Z">>
LowerCase == <<"a", "b", "c", "d", "e", "f", "g", "h", "i", "j", "k", "l", "m",
               "n", "o", "p", "q", "r", "s", "t", "u", "v", "w", "x", "y", "z">>

\* s.toLowerCase()
ToLowerCase(s) ==
    [i \in 1..Len(s) |->
        IF \E c \in 1..26 : UpperCase[c] = s[i]
        THEN LowerCase[CHOOSE c \in 1..26 : UpperCase[c] = s[i]]
        ELSE s[i]]

\* hay.includes(needle)
Includes(hay, needle) ==
    \E i \in 0..(Len(hay) - Len(needle)) : SubSeq(hay, i + 1, i + Len(needle)) = needle

\* Modal.tsx 522-535: the test of one filter on one row
FilterPasses(row, f) ==
    LET v == getValueByPath(row, f.field)
        val == f.value
        nv == ToNumber(v)
        \* Number(val), of a scalar: the filters give an array to `in` alone
        nval == ToNumber(val)
    IN CASE f.op = "eq" -> v = val
         [] f.op = "neq" -> v # val
         [] f.op = "contains" ->
                v.t = "string" /\ Includes(ToLowerCase(StringOf(v)), ToLowerCase(StringOf(val)))
         [] f.op = "in" -> val = Array /\ \E i \in 1..Len(f.items) : f.items[i] = v
         [] f.op = "gt" -> nv.finite /\ nval.finite /\ nv.n > nval.n
         [] f.op = "gte" -> nv.finite /\ nval.finite /\ nv.n >= nval.n
         [] f.op = "lt" -> nv.finite /\ nval.finite /\ nv.n < nval.n
         [] f.op = "lte" -> nv.finite /\ nval.finite /\ nv.n <= nval.n
         [] OTHER -> TRUE

RECURSIVE Some(_, _)
\* filters.some(f => ...) in the place of filters.every
Some(filters, row) ==
    IF filters = <<>> THEN FALSE
    ELSE FilterPasses(row, Head(filters)) \/ Some(Tail(filters), row)

RECURSIVE Every(_, _)
\* Modal.tsx 521: filters.every(f => ...)
Every(filters, row) ==
    IF filters = <<>> THEN TRUE
    ELSE FilterPasses(row, Head(filters)) /\ Every(Tail(filters), row)

RECURSIVE FilterRows(_, _)
\* Modal.tsx 520: rows.filter(row => ...)
FilterRows(rows, filters) ==
    IF rows = <<>> THEN <<>>
    ELSE (IF Every(filters, Head(rows)) THEN <<Head(rows)>> ELSE <<>>)
         \o FilterRows(Tail(rows), filters)

\* Modal.tsx 518-537
applyFilters(rows, filters) ==
    IF ~filters.isArray \/ Len(filters.items) = 0 THEN rows
    ELSE FilterRows(rows, filters.items)

(***************************************************************************)
(* The rows and filters the filter engine is run on.                       *)
(***************************************************************************)
\* most rows in a call of applyFilters
MaxRows == 3

\* a row of the shipments source (Modal.tsx 475-483)
ShipmentRow(awb, pieces) ==
    [awb_number |-> Str(awb), pieces |-> Num(pieces), weight_kg |-> Num(5 * pieces),
     weight |-> Obj(5 * pieces)]

Rows ==
    {ShipmentRow(<<"A", "1">>, 0), ShipmentRow(<<"A", "1">>, 2),
     ShipmentRow(<<"b", "2">>, 1), ShipmentRow(<<"b", "2">>, 2)}

Filter(field, op, value) == [field |-> field, op |-> op, value |-> value, items |-> <<>>]

FilterIn(field, items) == [field |-> field, op |-> "in", value |-> Array, items |-> items]

ComparisonOps == {"eq", "neq", "gt", "gte", "lt", "lte"}

Filters ==
    {Filter(<<"pieces">>, op, v) : op \in ComparisonOps, v \in {Num(0), Num(1), Str(<<"1">>)}}
    \cup {Filter(<<"weight">>, "gt", Num(0)),
          Filter(<<"weight", "value">>, "gte", Num(5)),
          Filter(<<"weight_kg">>, "lt", Num(5)),
          Filter(<<"missing">>, "gt", Num(0)),
          Filter(<<"missing">>, "eq", Undef),
          Filter(<<"pieces", "x">>, "neq", Undef),
          Filter(<<>>, "eq", Undef),
          Filter(<<"pieces">>, "gt", Str(<<"k", "g">>)),
          Filter(<<"awb_number">>, "eq", Str(<<"A", "1">>)),
          Filter(<<"awb_number">>, "gt", Num(1)),
          Filter(<<"awb_number">>, "contains", Str(<<"a">>)),
          Filter(<<"awb_number">>, "contains", Str(<<"B">>)),
          Filter(<<"awb_number">>, "contains", Num(1)),
          Filter(<<"pieces">>, "contains", Num(1)),
          Filter(<<"awb_number">>, "in", Str(<<"A", "1">>)),
          Filter(<<"awb_number">>, "like", Str(<<"A", "1">>)),
          FilterIn(<<"awb_number">>, <<Str(<<"b", "2">>), Num(1)>>),
          FilterIn(<<"pieces">>, <<Num(2), Str(<<"1">>)>>)}

\* the filters that come second in a list of two
SecondFilters ==
    {Filter(<<"pieces">>, "gt", Num(0)),
     Filter(<<"pieces">>, "lt", Num(2)),
     Filter(<<"awb_number">>, "contains", Str(<<"a">>)),
     Filter(<<"weight">>, "gte", Num(10)),
     Filter(<<"awb_number">>, "like", Str(<<"A", "1">>))}

FilterLists ==
    {NotArr, Arr(<<>>)}
    \cup {Arr(<<f>>) : f \in Filters}
    \cup {Arr(<<f, g>>) : f \in Filters, g \in SecondFilters}

InitFilter ==
    /\ chartRows \in SeqsUpTo(Rows, MaxRows)
    /\ chartFilters \in FilterLists
    /\ filteredRows = <<>>
    /\ fpc = "call"
    /\ TransformIdle
    /\ ChartIdle
    /\ ListIdle
    /\ NavIdle
    /\ OthersIdle

\* Modal.tsx 543: const sourceRows = applyFilters(rowsPre, specN.filters)
ApplyFilters ==
    /\ fpc = "call"
    /\ fpc' = "returned"
    /\ filteredRows' = applyFilters(chartRows, chartFilters)
    /\ UNCHANGED <<chartRows, chartFilters>>
    /\ UNCHANGED notFilter

NextFilter == ApplyFilters

SpecFilter == InitFilter /\ [][NextFilter]_vars

(***************************************************************************)
(* C10. applyFilters returns rows unchanged when filters is absent or      *)
(* empty; otherwise it returns, in their original order, exactly the rows  *)
(* on which every filter passes.  With the single filter                   *)
(* {field: 'pieces', op: 'gt', value: 0} these are the rows with           *)
(* pieces > 0.                                                             *)
(***************************************************************************)
\* the k-th smallest element of a set of indices
Kth(keep, k) == CHOOSE i \in keep : Cardinality({j \in keep : j < i}) = k - 1

\* out is rows restricted to the indices in keep, in order
IsSelection(out, rows, keep) ==
    /\ Len(out) = Cardinality(keep)
    /\ \A k \in 1..Len(out) : out[k] = rows[Kth(keep, k)]

PiecesGtZero == Arr(<<Filter(<<"pieces">>, "gt", Num(0))>>)

C10_ApplyFilters ==
    fpc = "returned" =>
        /\ (~chartFilters.isArray \/ chartFilters.items = <<>>) => filteredRows = chartRows
        /\ (chartFilters.isArray /\ chartFilters.items # <<>>) =>
              IsSelection(filteredRows, chartRows,
                          {i \in 1..Len(chartRows) :
                              \A k \in 1..Len(chartFilters.items) :
                                  FilterPasses(chartRows[i], chartFilters.items[k])})
        /\ chartFilters = PiecesGtZero =>
              IsSelection(filteredRows, chartRows,
                          {i \in 1..Len(chartRows) : chartRows[i].pieces.n > 0})

\* three different rows under two filters: the first row passes the first
\* filter alone, the last the second alone, the middle one both
C10_Witness ==
    /\ fpc = "returned"
    /\ Len(chartRows) = 3
    /\ chartFilters.isArray
    /\ Len(chartFilters.items) = 2
    /\ FilterPasses(chartRows[1], chartFilters.items[1])
    /\ ~FilterPasses(chartRows[1], chartFilters.items[2])
    /\ FilterPasses(chartRows[3], chartFilters.items[2])
    /\ ~FilterPasses(chartRows[3], chartFilters.items[1])
    /\ filteredRows = <<chartRows[2]>>

(***************************************************************************)
(* The chart data shaper of the assistant (Modal.tsx 418-600).  A field of *)
(* a chart spec is its path split at the dots, <<>> when the field is      *)
(* missing or empty.  A spec carries the fields generateChartDataFromSpec  *)
(* reads: source, xField, yField, aggregate, sort, topN and filters; a     *)
(* missing aggregate or sort is "".                                        *)
(***************************************************************************)
\* field.toLowerCase(), of the field names the specs are written with
LowerCaseOf(key) ==
    CASE key = "AWB" -> "awb"
      [] key = "Customer" -> "customer"
      [] OTHER -> key

\* Modal.tsx 421-432: the alias map, <<>> for a name it does not hold
AliasOf(f, source) ==
    CASE f \in {"mawb", "mawb_number", "awb", "mawbno", "mawb_no"} -> <<"awb_number">>
      [] f \in {"uld", "uldid", "uld_type"} -> <<"uld_id">>
      [] f \in {"weight", "weight_kg"} ->
            IF source = "ulds" THEN <<"weight", "value">>
            ELSE IF source = "hawbs" THEN <<"actual_weight_kg">>
            ELSE <<"weight", "value">>
      [] f = "actual_weight" -> <<"actual_weight_kg">>
      [] f \in {"pieces", "pcs"} -> <<"pieces">>
      [] f \in {"destination", "dest"} -> <<"destination">>
      [] f = "origin" -> <<"origin">>
      [] f = "customer" -> <<"customer">>
      [] f \in {"hawb", "hawb_number"} -> <<"hawb_number">>
      [] OTHER -> <<>>

\* Modal.tsx 418-434
normalizeFieldPath(field, source) ==
    IF field = <<>> THEN field
    ELSE LET alias == IF Len(field) = 1 THEN AliasOf(LowerCaseOf(field[1]), source) ELSE <<>>
         IN IF alias # <<>> THEN alias ELSE field

\* Modal.tsx 450, 593: the category field a source falls back to
DefaultXField(source) ==
    IF source = "shipments" THEN <<"awb_number">>
    ELSE IF source = "ulds" THEN <<"uld_id">>
    ELSE <<"hawb_number">>

\* Modal.tsx 436-469, for the fields of a bar, line or pie chart
normalizeSpecFields(spec) ==
    LET xN == normalizeFieldPath(spec.xField, spec.source)
        yN == normalizeFieldPath(spec.yField, spec.source)
    IN [spec EXCEPT
            !.xField = IF xN = <<>> THEN DefaultXField(spec.source) ELSE xN,
            !.yField = IF yN = <<>>
                       THEN (IF spec.source = "hawbs" THEN <<"actual_weight_kg">>
                             ELSE <<"weight", "value">>)
                       ELSE yN]

RECURSIVE UldRowsOf(_, _)
\* Modal.tsx 487-495: the rows of one shipment's uld_contents
UldRowsOf(s, ulds) ==
    IF ulds = <<>> THEN <<>>
    ELSE <<[awb_number |-> Str(s.awb_number), uld_id |-> Str(Head(ulds).uld_id),
            pieces |-> Num(Head(ulds).pieces),
            weight_kg |-> Num(Head(ulds).weight), weight |-> Obj(Head(ulds).weight)]>>
         \o UldRowsOf(s, Tail(ulds))

RECURSIVE HawbRowsOf(_, _)
\* Modal.tsx 502-513: the rows of one shipment's house_shipments
HawbRowsOf(s, hawbs) ==
    IF hawbs = <<>> THEN <<>>
    ELSE <<[awb_number |-> Str(s.awb_number), hawb_number |-> Str(Head(hawbs).hawb_number),
            customer |-> Str(Head(hawbs).customer),
            destination |-> Str(Head(hawbs).destination), origin |-> Str(Head(hawbs).origin),
            pieces |-> Num(Head(hawbs).pieces),
            weight_kg |-> Num(Head(hawbs).actual_weight_kg),
            actual_weight_kg |-> Num(Head(hawbs).actual_weight_kg)]>>
         \o HawbRowsOf(s, Tail(hawbs))

RECURSIVE getSourceRows(_, _)
\* Modal.tsx 471-516, over the shipments of manifestData
getSourceRows(manifest, source) ==
    IF manifest.shipments = <<>> THEN <<>>
    ELSE LET s == Head(manifest.shipments)
             rest == getSourceRows([manifest EXCEPT !.shipments = Tail(@)], source)
         IN IF source = "shipments"
            THEN <<[awb_number |-> Str(s.awb_number), pieces |-> Num(s.pieces),
                    weight_kg |-> Num(s.weight), weight |-> Obj(s.weight),
                    nature_of_goods |-> Str(s.nature_of_goods),
                    destination |-> Str(manifest.arrival_airport),
                    origin |-> Str(manifest.departure_airport)]>> \o rest
            ELSE IF source = "ulds" THEN UldRowsOf(s, s.uld_contents) \o rest
            ELSE HawbRowsOf(s, s.house_shipments) \o rest

\* Modal.tsx 584: the number of entries kept when the spec gives no topN
DefaultCap == 20

\* Modal.tsx 550-551: the group key of a row
CategoryKey(row, x) ==
    LET keyRaw == getValueByPath(row, x)
    IN IF keyRaw = Undef \/ keyRaw = Str(<<>>) THEN <<>> ELSE StringOf(keyRaw)

\* y.endsWith('weight'), of the field names the specs are written with
EndsWithWeight(y) == y # <<>> /\ y[Len(y)] \in {"weight", "gross_weight"}

\* Modal.tsx 552-561: the raw value of a row, with the weight fallbacks
RawValue(row, y) ==
    LET raw0 == getValueByPath(row, y)
        raw1 == IF raw0 = Undef /\ EndsWithWeight(y)
                THEN getValueByPath(row, Append(y, "value")) ELSE raw0
        w == getValueByPath(row, <<"weight", "value">>)
    IN IF raw0 # Undef THEN raw0
       ELSE IF raw1 # Undef THEN raw1
       ELSE IF w # Undef THEN w
       ELSE getValueByPath(row, <<"weight_kg">>)

\* Modal.tsx 562-563, 567: the number a row adds to its group
YValue(row, y) ==
    LET rawV == RawValue(row, y)
        yValRaw == IF rawV = Undef THEN Num(IF y = <<"value">> THEN 1 ELSE 0) ELSE rawV
    IN IF yValRaw.t = "number" THEN yValRaw.n
       ELSE LET n == ToNumber(yValRaw) IN IF n.finite THEN n.n ELSE 0

\* Modal.tsx 564: a key that counts as an undefined name
IsUndefinedName(key) ==
    key = <<>> \/ key = <<"u", "n", "d", "e", "f", "i", "n", "e", "d">>

\* Modal.tsx 550-568: one turn of the loop, on the Map and the count so far
GroupRow(acc, row, x, y) ==
    LET key == CategoryKey(row, x)
        arr == IF MapHas(acc.groups, key) THEN MapGet(acc.groups, key) ELSE <<>>
    IN [groups |-> MapSet(acc.groups, key, Append(arr, YValue(row, y))),
        undefinedName |-> acc.undefinedName + (IF IsUndefinedName(key) THEN 1 ELSE 0)]

RECURSIVE GroupRows(_, _, _, _)
\* Modal.tsx 549-569: the Map of groups and the count of undefined names
\* after the first n rows
GroupRows(rows, x, y, n) ==
    IF n = 0 THEN [groups |-> <<>>, undefinedName |-> 0]
    ELSE CHOOSE next \in {GroupRow(acc, rows[n], x, y) :
                            acc \in {GroupRows(rows, x, y, n - 1)}} : TRUE

RECURSIVE SumOf(_)
\* values.reduce((a, b) => a + b, 0)
SumOf(values) == IF values = <<>> THEN 0 ELSE Head(values) + SumOf(Tail(values))

\* a value as the fraction num / den, den > 0
Frac(num, den) == [num |-> num, den |-> den]

\* the sum whatever the aggregate
AggregateOfSum(values, agg) == Frac(SumOf(values), 1)

\* Modal.tsx 571-574
AggregateOf(values, agg) ==
    IF agg = "count" THEN Frac(Len(values), 1)
    ELSE IF agg = "avg"
         THEN (IF Len(values) # 0 THEN Frac(SumOf(values), Len(values)) ELSE Frac(0, 1))
         ELSE Frac(SumOf(values), 1)

\* Modal.tsx 575
Unknown == <<"U", "n", "k", "n", "o", "w", "n">>

\* Modal.tsx 570-576
EntryOf(group, agg) ==
    [name |-> IF group.k = <<>> THEN Unknown ELSE group.k,
     value |-> AggregateOf(group.v, agg)]

\* Modal.tsx 578: the sign of the comparator of data.sort
Compare(a, b, sort) ==
    LET d == a.value.num * b.value.den - b.value.num * a.value.den
    IN IF sort = "asc" THEN d ELSE 0 - d

RECURSIVE InsertSorted(_, _, _)
InsertSorted(sorted, e, sort) ==
    IF sorted = <<>> THEN <<e>>
    ELSE IF Compare(Head(sorted), e, sort) <= 0
         THEN <<Head(sorted)>> \o InsertSorted(Tail(sorted), e, sort)
         ELSE <<e>> \o sorted

RECURSIVE SortData(_, _)
\* Modal.tsx 577-579: Array.prototype.sort, which is stable
SortData(data, sort) ==
    IF data = <<>> THEN <<>>
    ELSE CHOOSE sorted \in {InsertSorted(front, data[Len(data)], sort) :
                              front \in {SortData(SubSeq(data, 1, Len(data) - 1), sort)}} :
             TRUE

\* data.slice(0, n), n a non-negative integer
Slice(data, n) == SubSeq(data, 1, IF n < Len(data) THEN n ELSE Len(data))

\* specN.topN is truthy
TopNTruthy(topN) == topN.t = "number" /\ topN.n # 0

\* Modal.tsx 580-586
Truncate(data, topN) ==
    LET cut == IF TopNTruthy(topN) /\ topN.n > 0 THEN Slice(data, topN.n) ELSE data
    IN IF ~TopNTruthy(topN) /\ Len(cut) > DefaultCap THEN Slice(cut, DefaultCap) ELSE cut

\* the threshold alone, without the test that the fallback differs
ShouldRetryOnThreshold(undefinedName, data, x, fallbackX) ==
    2 * undefinedName > Len(data)

\* Modal.tsx 592-594: undefinedName > data.length / 2 and fallbackX !== x
ShouldRetry(undefinedName, data, x, fallbackX) ==
    2 * undefinedName > Len(data) /\ fallbackX # x

\* Modal.tsx 539-599: one invocation of generateChartDataFromSpec, up to its
\* return or its recursive call
generateChartDataFromSpec(spec, manifest) ==
    LET specN == normalizeSpecFields(spec)
        sourceRows == applyFilters(getSourceRows(manifest, specN.source), specN.filters)
        x == specN.xField
        agg == IF specN.aggregate = "" THEN "sum" ELSE specN.aggregate
        g == GroupRows(sourceRows, x, specN.yField, Len(sourceRows))
        mapped == [i \in 1..Len(g.groups) |-> EntryOf(g.groups[i], agg)]
        sorted == IF specN.sort # "" THEN SortData(mapped, specN.sort) ELSE mapped
        data == Truncate(sorted, specN.topN)
        fallbackX == DefaultXField(specN.source)
    IN [data |-> data,
        recurse |-> ShouldRetry(g.undefinedName, data, x, fallbackX),
        spec |-> [specN EXCEPT !.xField = fallbackX]]

(***************************************************************************)
(* The manifests and chart specs the shaper is run on.  A manifest holds   *)
(* what getSourceRows reads: per shipment its AWB number, pieces, weight   *)
(* in whole kg, nature of goods, uld_contents and house_shipments.         *)
(***************************************************************************)
\* most shipments of a manifest whose goods and customers vary
MaxShipments == 3
\* most shipments of a manifest with one row per AWB
MaxChartRows == 21
\* most invocations of generateChartDataFromSpec the model follows
MaxCalls == 4

ShipmentWeight(i) == IF i = 1 THEN 10 ELSE IF i = 2 THEN 5 ELSE i

ShipmentPieces(i) == IF i <= 2 THEN 2 ELSE 1

Uld(id, pieces, weight) == [uld_id |-> id, pieces |-> pieces, weight |-> weight]

\* the i-th shipment: weights 10, 5, 3, 4, ...; the first is split over two
\* ULDs; its one house shipment has the goods' name as customer, the third
\* shipment's house shipment has no number
ChartShipment(i, goods) ==
    [awb_number |-> DigitsOf(i),
     pieces |-> ShipmentPieces(i),
     weight |-> ShipmentWeight(i),
     nature_of_goods |-> goods,
     uld_contents |->
        IF i = 1 THEN <<Uld(<<"U", "1">>, 1, 5), Uld(<<"U", "2">>, 1, 5)>>
        ELSE IF i = 3 THEN <<Uld(<<"U", "2">>, 1, 3)>>
        ELSE <<Uld(<<"U", "1">>, ShipmentPieces(i), ShipmentWeight(i))>>,
     house_shipments |->
        <<[hawb_number |-> IF i = 3 THEN <<>> ELSE <<"H">> \o DigitsOf(i),
           customer |-> goods, destination |-> <<"J", "F", "K">>,
           origin |-> <<"T", "L", "V">>,
           pieces |-> ShipmentPieces(i), actual_weight_kg |-> ShipmentWeight(i)]>>]

ChartManifest(shipments) ==
    [shipments |-> shipments, departure_airport |-> <<"T", "L", "V">>,
     arrival_airport |-> <<"J", "F", "K">>]

Goods == {<<>>, <<"A">>, <<"B">>}

ChartManifests ==
    UNION {{ChartManifest([i \in 1..n |-> ChartShipment(i, g[i])]) : g \in [1..n -> Goods]} :
             n \in 0..MaxShipments} \cup
    {ChartManifest([i \in 1..n |-> ChartShipment(i, <<>>)]) : n \in (MaxShipments + 1)..MaxChartRows}

ChartSpec(source, x, y, agg, sort, topN, filters) ==
    [source |-> source, xField |-> x, yField |-> y, aggregate |-> agg, sort |-> sort,
     topN |-> topN, filters |-> filters]

ChartSources == {"shipments", "ulds", "hawbs"}

ChartSpecs ==
    {ChartSpec(src, x, y, agg, "", Undef, NotArr) :
        src \in ChartSources,
        x \in {<<>>, <<"awb_number">>, <<"AWB">>, <<"nature_of_goods">>, <<"Customer">>,
               <<"uld">>, <<"pieces">>},
        y \in {<<>>, <<"weight">>, <<"pieces">>, <<"gross_weight">>, <<"awb_number">>},
        agg \in {"", "sum", "count", "avg"}}
    \cup
    {ChartSpec(src, x, <<>>, "sum", sort, topN, NotArr) :
        src \in ChartSources,
        x \in {<<"awb_number">>, <<"nature_of_goods">>, <<"customer">>},
        sort \in {"", "asc", "desc"},
        topN \in {Undef, Num(0), Num(0 - 1), Num(1), Num(2), Num(DefaultCap + 5)}}
    \cup
    {ChartSpec("shipments", x, <<>>, "sum", "", Undef, f) :
        x \in {<<"awb_number">>, <<"nature_of_goods">>},
        f \in {Arr(<<>>), PiecesGtZero,
               Arr(<<Filter(<<"weight">>, "gte", Num(5))>>),
               Arr(<<Filter(<<"nature_of_goods">>, "neq", Str(<<>>))>>)}}

InitChart ==
    /\ manifestData \in ChartManifests
    /\ spec0 \in ChartSpecs
    /\ specArg = spec0
    /\ calls = 0
    /\ chartData = <<>>
    /\ cpc = "call"
    /\ option = "none"
    /\ TransformIdle
    /\ FilterIdle
    /\ ListIdle
    /\ NavIdle
    /\ OthersIdle

\* one invocation: it returns its data or calls itself with the fallback
Invocation ==
    /\ calls < MaxCalls
    /\ calls' = calls + 1
    /\ \E r \in {generateChartDataFromSpec(specArg, manifestData)} :
          IF r.recurse
          THEN cpc' = "recurse" /\ specArg' = r.spec /\ UNCHANGED chartData
          ELSE cpc' = "returned" /\ chartData' = r.data /\ UNCHANGED specArg
    /\ UNCHANGED <<manifestData, spec0, option>>
    /\ UNCHANGED notChart

\* Modal.tsx 539: the call that renders a chart
GenerateChartData == cpc = "call" /\ Invocation

\* Modal.tsx 596: return generateChartDataFromSpec({ ...specN, xField: fallbackX })
RetryWithFallback == cpc = "recurse" /\ Invocation

NextChart == GenerateChartData \/ RetryWithFallback

SpecChart == InitChart /\ [][NextChart]_vars

(***************************************************************************)
(* What the chart properties are stated with: the filtered rows of the     *)
(* chart's source, their categories in order of first appearance, and the  *)
(* entry a category should give.                                           *)
(***************************************************************************)
ChartRowsOf == applyFilters(getSourceRows(manifestData, spec0.source), spec0.filters)

\* the category and value fields of the spec the chart was asked with
XFieldOf == normalizeSpecFields(spec0).xField
YFieldOf == normalizeSpecFields(spec0).yField

\* the category field of the invocation that returned
ReturnedXField == normalizeSpecFields(specArg).xField

\* the rows that open a category
CategoryFirsts(rows, x) ==
    {i \in 1..Len(rows) :
        \A j \in 1..(i - 1) : CategoryKey(rows[j], x) # CategoryKey(rows[i], x)}

CategoryMembers(rows, x, i) ==
    {j \in 1..Len(rows) : CategoryKey(rows[j], x) = CategoryKey(rows[i], x)}

RECURSIVE SumOver(_, _, _)
SumOver(rows, y, members) ==
    IF members = {} THEN 0
    ELSE LET j == CHOOSE m \in members : TRUE
         IN YValue(rows[j], y) + SumOver(rows, y, members \ {j})

SameValue(a, b) == a.num * b.den = b.num * a.den

\* entry is what the category opened by row i should give
IsEntryOf(entry, rows, x, y, agg, i) ==
    LET members == CategoryMembers(rows, x, i)
        total == SumOver(rows, y, members)
        size == Cardinality(members)
        key == CategoryKey(rows[i], x)
    IN /\ entry.name = (IF key = <<>> THEN Unknown ELSE key)
       /\ SameValue(entry.value,
                    IF agg = "count" THEN Frac(size, 1)
                    ELSE IF agg = "avg" THEN Frac(total, size)
                    ELSE Frac(total, 1))

\* data is the first m categories of rows, in order of first appearance
IsGroupingPrefix(data, rows, x, y, agg, m) ==
    /\ Len(data) = m
    /\ \A k \in 1..m : IsEntryOf(data[k], rows, x, y, agg, Kth(CategoryFirsts(rows, x), k))

\* the most entries a spec's topN lets through, of n
EntriesKept(topN, n) ==
    LET cap == IF topN.t = "number" /\ topN.n > 0 THEN topN.n
               ELSE IF topN.t = "number" /\ topN.n < 0 THEN n
               ELSE DefaultCap
    IN IF n < cap THEN n ELSE cap

(***************************************************************************)
(* C11 as stated.  With aggregate sum, count or avg and no sort the output *)
(* has one entry per distinct category of the filtered rows, in order of   *)
(* first appearance, valued with the sum, the size or the mean of the      *)
(* category's rows.  It fails: the output is cut to topN or 20 entries and *)
(* a retry groups by another field.                                        *)
(***************************************************************************)
C11_OneEntryPerCategory ==
    (cpc = "returned" /\ spec0.sort = "" /\ spec0.aggregate \in {"sum", "count", "avg"}) =>
        IsGroupingPrefix(chartData, ChartRowsOf, XFieldOf, YFieldOf, spec0.aggregate,
                         Cardinality(CategoryFirsts(ChartRowsOf, XFieldOf)))

(***************************************************************************)
(* C11 amended.  With aggregate sum, count or avg and no sort the output   *)
(* is the first entries, up to topN when topN is positive, up to 20 when   *)
(* topN is absent or zero, and all of them when topN is negative, of the   *)
(* list that has one entry per distinct category of the filtered rows in   *)
(* order of first appearance, each valued with the sum, the size or the    *)
(* mean of its rows; the category field is the spec's, or the source's     *)
(* default category field when the retry ran.                              *)
(***************************************************************************)
C11_GroupingUpToTruncation ==
    (cpc = "returned" /\ spec0.sort = "" /\ spec0.aggregate \in {"sum", "count", "avg"}) =>
        IsGroupingPrefix(chartData, ChartRowsOf, ReturnedXField, YFieldOf, spec0.aggregate,
                         EntriesKept(spec0.topN,
                                     Cardinality(CategoryFirsts(ChartRowsOf, ReturnedXField))))

\* rows A:10, A:5, B:3 summed to A:15, B:3
C11_Witness ==
    /\ cpc = "returned"
    /\ calls = 1
    /\ spec0.sort = ""
    /\ spec0.aggregate = "sum"
    /\ spec0.xField = <<"nature_of_goods">>
    /\ Len(ChartRowsOf) = 3
    /\ chartData = <<[name |-> <<"A">>, value |-> Frac(15, 1)],
                     [name |-> <<"B">>, value |-> Frac(3, 1)]>>

(***************************************************************************)
(* C12.  The output has at most topN entries when topN is positive and at  *)
(* most 20 entries in every other case.  It fails for a negative topN.     *)
(***************************************************************************)
C12_OutputBounded ==
    cpc = "returned" =>
        Len(chartData) <= (IF spec0.topN.t = "number" /\ spec0.topN.n > 0
                           THEN spec0.topN.n ELSE DefaultCap)

(***************************************************************************)
(* C13.  The first invocation retries exactly when more than half of the   *)
(* groups it produced have an empty or missing category key.  It fails:    *)
(* the code compares the number of rows with such a key with half the      *)
(* number of entries it returns.                                           *)
(***************************************************************************)
UnresolvableGroups(rows, x) ==
    {i \in CategoryFirsts(rows, x) : IsUndefinedName(CategoryKey(rows[i], x))}

C13_RetryIffMostGroupsUnresolvable ==
    cpc # "call" =>
        ((cpc = "recurse" \/ calls >= 2)
            <=> 2 * Cardinality(UnresolvableGroups(ChartRowsOf, XFieldOf))
                    > Cardinality(CategoryFirsts(ChartRowsOf, XFieldOf)))

(***************************************************************************)
(* C14.  generateChartDataFromSpec calls itself at most once: the retried  *)
(* spec has the default category field, normalizeSpecFields leaves that    *)
(* field as it is, and the second invocation returns.                      *)
(***************************************************************************)
C14_RetriesAtMostOnce ==
    /\ calls <= 2
    /\ cpc = "recurse" =>
          /\ calls = 1
          /\ specArg.xField = DefaultXField(specArg.source)
          /\ normalizeSpecFields(specArg).xField = specArg.xField

\* the second invocation is over the threshold again and returns
C14_Witness ==
    /\ cpc = "returned"
    /\ calls = 2
    /\ 2 * Cardinality({i \in 1..Len(ChartRowsOf) :
                          IsUndefinedName(CategoryKey(ChartRowsOf[i], ReturnedXField))})
           > Len(chartData)

(***************************************************************************)
(* The histogram of buildEchartsOption (Modal.tsx 712-730).  The values    *)
(* are whole numbers and the bucket of a value is computed exactly.        *)
(***************************************************************************)
\* Modal.tsx 716: the fewest buckets, the buckets when binCount is missing
\* or 0, and the most buckets asked for that are honoured
MinBins == 5
DefaultBins == 12
MaxBins == 50

RECURSIVE HistogramValues(_, _)
\* Modal.tsx 715: rows.map(r => Number(getValueByPath(r, x) || 0)).filter(Number.isFinite)
HistogramValues(rows, x) ==
    IF rows = <<>> THEN <<>>
    ELSE LET v == getValueByPath(Head(rows), x)
             n == IF v = Undef \/ v = Str(<<>>) \/ v = Num(0)
                  THEN [finite |-> TRUE, n |-> 0] ELSE ToNumber(v)
         IN (IF n.finite THEN <<n.n>> ELSE <<>>) \o HistogramValues(Tail(rows), x)

\* binCount || 12, without the clamp to 5..50
BinsAsAsked(binCount) ==
    IF binCount.t = "number" /\ binCount.n # 0 THEN binCount.n ELSE DefaultBins

\* Modal.tsx 716: Math.max(5, Math.min(spec.binCount || 12, 50))
Bins(binCount) ==
    LET asked == IF binCount.t = "number" /\ binCount.n # 0 THEN binCount.n ELSE DefaultBins
        capped == IF asked < MaxBins THEN asked ELSE MaxBins
    IN IF capped > MinBins THEN capped ELSE MinBins

\* Modal.tsx 717: Math.min(...values, 0) and Math.max(...values, 1)
MinOf(values) ==
    CHOOSE m \in {values[i] : i \in 1..Len(values)} \cup {0} :
        \A i \in 1..Len(values) : m <= values[i] /\ m <= 0
MaxOf(values) ==
    CHOOSE m \in {values[i] : i \in 1..Len(values)} \cup {1} :
        \A i \in 1..Len(values) : m >= values[i] /\ m >= 1

\* Modal.tsx 721: Math.floor((v - min) / step), clamped to 0..bins-1
BinIndex(v, min, max, bins) ==
    LET idx == ((v - min) * bins) \div (max - min)
    IN IF idx >= bins THEN bins - 1 ELSE IF idx < 0 THEN 0 ELSE idx

RECURSIVE CountBelowTop(_, _, _, _, _)
\* the counts when an index of bins or more is dropped and not clamped
CountBelowTop(values, min, max, bins, n) ==
    IF n = 0 THEN [i \in 1..bins |-> 0]
    ELSE LET counts == CountBelowTop(values, min, max, bins, n - 1)
             idx == ((values[n] - min) * bins) \div (max - min)
         IN IF idx >= bins THEN counts ELSE [counts EXCEPT ![idx + 1] = @ + 1]

RECURSIVE CountInto(_, _, _, _, _)
\* Modal.tsx 719-722: the counts after the first n values
CountInto(values, min, max, bins, n) ==
    IF n = 0 THEN [i \in 1..bins |-> 0]
    ELSE LET counts == CountInto(values, min, max, bins, n - 1)
             idx == BinIndex(values[n], min, max, bins)
         IN [counts EXCEPT ![idx + 1] = @ + 1]

\* Modal.tsx 712-730: the buckets, their width (max - min) / bins and counts
Histogram(spec, manifest) ==
    LET rows == applyFilters(getSourceRows(manifest, spec.source), spec.filters)
        values == HistogramValues(rows, spec.xField)
        bins == Bins(spec.binCount)
        min == MinOf(values)
        max == MaxOf(values)
    IN [bins |-> bins, step |-> Frac(max - min, bins),
        counts |-> CountInto(values, min, max, bins, Len(values))]

\* most rows of a histogram
MaxValues == 3

HistWeights == {0, 7, 10, 20}

HistShipment(i, w) ==
    [ChartShipment(i, IF w = 7 THEN <<"A">> ELSE <<>>) EXCEPT
        !.weight = w, !.uld_contents = <<Uld(<<"U", "1">>, ShipmentPieces(i), w)>>]

HistManifests ==
    UNION {{ChartManifest([i \in 1..n |-> HistShipment(i, w[i])]) : w \in [1..n -> HistWeights]} :
             n \in 0..MaxValues}

HistSpec(source, x, binCount) ==
    [source |-> source, xField |-> x, binCount |-> binCount, filters |-> NotArr]

HistSpecs ==
    {HistSpec(src, x, b) :
        src \in {"shipments", "ulds"},
        x \in {<<"weight_kg">>, <<"weight">>, <<"pieces">>, <<"awb_number">>, <<"customer">>,
               <<"nature_of_goods">>},
        b \in {Undef, Num(0), Num(0 - 3), Num(2), Num(MinBins), Num(7), Num(MaxBins), Num(MaxBins + 10)}}

InitHistogram ==
    /\ manifestData \in HistManifests
    /\ spec0 \in HistSpecs
    /\ specArg = spec0
    /\ calls = 0
    /\ chartData = <<>>
    /\ cpc = "build"
    /\ option = "none"
    /\ TransformIdle
    /\ FilterIdle
    /\ ListIdle
    /\ NavIdle
    /\ OthersIdle

\* Modal.tsx 1220: the chart modal renders buildEchartsOption(chartSpec, ...)
BuildEchartsOption ==
    /\ cpc = "build"
    /\ cpc' = "built"
    /\ option' = Histogram(spec0, manifestData)
    /\ UNCHANGED <<manifestData, spec0, specArg, calls, chartData>>
    /\ UNCHANGED notChart

NextHistogram == BuildEchartsOption

SpecHistogram == InitHistogram /\ [][NextHistogram]_vars

\* the values the histogram of the state bins
ValuesBinned ==
    HistogramValues(applyFilters(getSourceRows(manifestData, spec0.source), spec0.filters),
                    spec0.xField)

(***************************************************************************)
(* C15 as stated.  The values [0, 10, 20] with binCount 2 give 2 buckets   *)
(* of width 10 with counts [2, 1].  It fails: a binCount below 5 is raised *)
(* to 5.                                                                   *)
(***************************************************************************)
C15_TwoBuckets ==
    (cpc = "built" /\ ValuesBinned = <<0, 10, 20>> /\ spec0.binCount = Num(2)) =>
        /\ option.bins = 2
        /\ SameValue(option.step, Frac(10, 1))
        /\ option.counts = <<2, 1>>

(***************************************************************************)
(* C15 amended.  The values [0, 10, 20] with binCount 2 give 5 buckets of  *)
(* width 4 with counts [1, 0, 1, 0, 1]: 0 in bucket 0, 10 in bucket 2 and  *)
(* 20, the upper boundary, clamped into the last bucket.  In general the   *)
(* buckets number max(5, min(binCount or 12, 50)), they have equal width   *)
(* over [min(0, values), max(1, values)], and every value is counted once, *)
(* in the bucket its offset falls in, the maximum in the last one.         *)
(***************************************************************************)
C15_FiveBuckets ==
    cpc = "built" =>
        LET values == ValuesBinned
            lo == MinOf(values)
            hi == MaxOf(values)
            n == option.bins
            InBucket(v, b) ==
                \/ b < n /\ (hi - lo) * (b - 1) <= (v - lo) * n /\ (v - lo) * n < (hi - lo) * b
                \/ b = n /\ (hi - lo) * (b - 1) <= (v - lo) * n
        IN /\ spec0.binCount.t = "number" /\ spec0.binCount.n \in MinBins..MaxBins
                => n = spec0.binCount.n
           /\ spec0.binCount.t = "number" /\ spec0.binCount.n \in 1..MinBins => n = MinBins
           /\ spec0.binCount.t = "number" /\ spec0.binCount.n > MaxBins => n = MaxBins
           /\ spec0.binCount \in {Undef, Num(0)} => n = DefaultBins
           /\ SameValue(option.step, Frac(hi - lo, n))
           /\ DOMAIN option.counts = 1..n
           /\ \A b \in 1..n :
                option.counts[b] = Cardinality({k \in 1..Len(values) : InBucket(values[k], b)})
           /\ (values = <<0, 10, 20>> /\ spec0.binCount = Num(2)) =>
                /\ n = 5
                /\ SameValue(option.step, Frac(4, 1))
                /\ option.counts = <<1, 0, 1, 0, 1>>

C15_Witness ==
    /\ cpc = "built"
    /\ ValuesBinned = <<0, 10, 20>>
    /\ spec0.binCount = Num(2)
    /\ option.counts = <<1, 0, 1, 0, 1>>

(***************************************************************************)
(* The manifest list of App (App.tsx 64-107) and debounce (utils.ts 3-15). *)
(* Time advances in steps of 100 ms and a timer that is due runs before    *)
(* time advances and before the next user event.  Of the filters the       *)
(* model keeps manifestNo and page.  A call of getManifests settles at any *)
(* later moment, with the page of docs its filters ask for or with an      *)
(* error.                                                                  *)
(***************************************************************************)
\* App.tsx 84: debounce(fetchManifests, 300)
WaitFor == 300

\* most filter changes after the mount
MaxChanges == 3
\* most steps of the clock
MaxTicks == 6
\* totalPages of every response
MaxPages == 2

\* clearTimeout that cancels nothing
KeepTimers(pending, id) == pending

\* clearTimeout(id)
ClearTimeout(pending, id) == {t \in pending : t.id # id}

\* utils.ts 6-12: debounced(...args), with the id the new timer gets
SetDebounceTimer(pending, last, id, at, args) ==
    ClearTimeout(pending, last) \cup {[id |-> id, due |-> at + WaitFor, args |-> args]}

\* the response is dropped
ListKept(list, docs, info) == list

\* App.tsx 69-75: setManifests(data.docs) and setPaginationInfo(...)
ListOfResponse(list, docs, info) == [manifests |-> docs, paginationInfo |-> info]

\* what the server answers to a request: one summary that names the filters
DocsFor(args) == <<[manifestNo |-> args.manifestNo, page |-> args.page]>>

PageInfoFor(args) ==
    [page |-> args.page, totalPages |-> MaxPages, hasNextPage |-> args.page < MaxPages,
     hasPrevPage |-> args.page > 1]

\* a timer is due
TimerDue == \E t \in timers : t.due <= now

\* App.tsx 86-88 with utils.ts 6-12: the effect of a render with new filters
FiltersEffect(f) ==
    /\ listFilters' = f
    /\ changes' = Append(changes, [at |-> now, filters |-> f])
    /\ timers' = SetDebounceTimer(timers, timeout, Len(changes) + 1, now, f)
    /\ timeout' = Len(changes) + 1

\* the App is mounted and its first effect has run
InitList ==
    /\ listFilters = [manifestNo |-> "", page |-> 1]
    /\ now = 0
    /\ changes = <<[at |-> 0, filters |-> listFilters]>>
    /\ timers = SetDebounceTimer({}, 0, 1, 0, listFilters)
    /\ timeout = 1
    /\ invoked = <<>>
    /\ inflight = {}
    /\ applied = <<>>
    /\ manifests = <<>>
    /\ paginationInfo = [page |-> 1, totalPages |-> 1, hasNextPage |-> FALSE,
                         hasPrevPage |-> FALSE]
    /\ isListLoading = TRUE
    /\ listError = ""
    /\ TransformIdle
    /\ FilterIdle
    /\ ChartIdle
    /\ NavIdle
    /\ OthersIdle

\* App.tsx 90-93: typing in the manifest number filter
HandleFilterChange ==
    /\ ~TimerDue
    /\ Len(changes) <= MaxChanges
    /\ \E value \in {"", "a", "b"} :
          FiltersEffect([listFilters EXCEPT !.manifestNo = value, !.page = 1])
    /\ UNCHANGED <<now, invoked, inflight, applied, manifests, paginationInfo,
                   isListLoading, listError>>
    /\ UNCHANGED notList

\* App.tsx 103-107: the Previous and Next buttons of a loaded list
HandlePageChange ==
    /\ ~TimerDue
    /\ Len(changes) <= MaxChanges
    /\ ~isListLoading
    /\ manifests # <<>>
    /\ \E newPage \in {paginationInfo.page - 1, paginationInfo.page + 1} :
          /\ newPage < paginationInfo.page => paginationInfo.hasPrevPage
          /\ newPage > paginationInfo.page => paginationInfo.hasNextPage
          /\ newPage > 0
          /\ newPage <= paginationInfo.totalPages
          /\ FiltersEffect([listFilters EXCEPT !.page = newPage])
    /\ UNCHANGED <<now, invoked, inflight, applied, manifests, paginationInfo,
                   isListLoading, listError>>
    /\ UNCHANGED notList

\* 100 ms pass
Tick ==
    /\ ~TimerDue
    /\ now < MaxTicks * 100
    /\ now' = now + 100
    /\ UNCHANGED <<listFilters, timers, timeout, changes, invoked, inflight, applied,
                   manifests, paginationInfo, isListLoading, listError>>
    /\ UNCHANGED notList

\* utils.ts 11 and App.tsx 64-68: a timer runs func(...args), and
\* fetchManifests runs up to its await
TimerFires ==
    /\ \E t \in timers :
          /\ t.due <= now
          /\ timers' = timers \ {t}
          /\ invoked' = Append(invoked, [at |-> now, args |-> t.args, timer |-> t.id])
          /\ inflight' = inflight \cup {[id |-> Len(invoked) + 1, args |-> t.args]}
    /\ isListLoading' = TRUE
    /\ listError' = ""
    /\ UNCHANGED <<listFilters, now, timeout, changes, applied, manifests, paginationInfo>>
    /\ UNCHANGED notList

\* App.tsx 68-75, 79-81: getManifests resolves
FetchManifestsData ==
    /\ \E r \in inflight :
          /\ inflight' = inflight \ {r}
          /\ applied' = Append(applied, [id |-> r.id, ok |-> TRUE])
          /\ LET list == ListOfResponse([manifests |-> manifests,
                                         paginationInfo |-> paginationInfo],
                                        DocsFor(r.args), PageInfoFor(r.args))
             IN manifests' = list.manifests /\ paginationInfo' = list.paginationInfo
    /\ isListLoading' = FALSE
    /\ UNCHANGED <<listFilters, now, timers, timeout, changes, invoked, listError>>
    /\ UNCHANGED notList

\* App.tsx 76-81: getManifests rejects
FetchManifestsCatch ==
    /\ \E r \in inflight :
          /\ inflight' = inflight \ {r}
          /\ applied' = Append(applied, [id |-> r.id, ok |-> FALSE])
    /\ listError' = "Failed to fetch manifests"
    /\ manifests' = <<>>
    /\ isListLoading' = FALSE
    /\ UNCHANGED <<listFilters, now, timers, timeout, changes, invoked, paginationInfo>>
    /\ UNCHANGED notList

NextList ==
    \/ HandleFilterChange
    \/ HandlePageChange
    \/ Tick
    \/ TimerFires
    \/ FetchManifestsData
    \/ FetchManifestsCatch

SpecList == InitList /\ [][NextList]_vars

(***************************************************************************)
(* C16.  A change of the filters ends a burst when no other change follows *)
(* it within 300 ms.  fetchManifests is invoked for the changes that end a *)
(* burst and for no other: once per burst, 300 ms after the burst's last   *)
(* change and with the filters of that change.                             *)
(***************************************************************************)
EndsBurst(k) ==
    k = Len(changes) \/ changes[k + 1].at - changes[k].at >= WaitFor

\* the calls of fetchManifests made by the timer of the k-th change
CallsFor(k) == {i \in 1..Len(invoked) : invoked[i].timer = k}

\* the timer of the k-th change has run
HasRun(k) == now >= changes[k].at + WaitFor /\ ~(\E t \in timers : t.id = k)

C16_DebouncedFetch ==
    /\ \A i \in 1..Len(invoked) :
          \E k \in 1..Len(changes) :
              /\ EndsBurst(k)
              /\ i \in CallsFor(k)
              /\ invoked[i].at = changes[k].at + WaitFor
              /\ invoked[i].args = changes[k].filters
    /\ \A k \in 1..Len(changes) :
          /\ ~EndsBurst(k) => CallsFor(k) = {}
          /\ (EndsBurst(k) /\ HasRun(k)) => Cardinality(CallsFor(k)) = 1
          /\ (EndsBurst(k) /\ ~HasRun(k)) => CallsFor(k) = {}
    /\ Len(invoked) = Cardinality({k \in 1..Len(changes) : EndsBurst(k) /\ HasRun(k)})

\* a burst of three changes to different filters, 100 ms apart, and its one
\* call, 300 ms after the third
C16_Witness ==
    /\ Len(changes) = 3
    /\ changes[2].at = changes[1].at + 100
    /\ changes[3].at = changes[2].at + 100
    /\ changes[1].filters # changes[3].filters
    /\ changes[2].filters # changes[3].filters
    /\ Len(invoked) = 1
    /\ invoked[1] = [at |-> changes[3].at + WaitFor, args |-> changes[3].filters, timer |-> 3]

(***************************************************************************)
(* C17.  No response is discarded: after a call of getManifests resolves,  *)
(* manifests and paginationInfo are those of that call, whichever call was *)
(* made last.  So the response of an older request that lands after the    *)
(* response of a newer one is what the list shows, under the filters of    *)
(* the newer request.                                                      *)
(***************************************************************************)
C17_LastResponseWins ==
    (applied # <<>> /\ applied[Len(applied)].ok) =>
        LET args == invoked[applied[Len(applied)].id].args
        IN manifests = DocsFor(args) /\ paginationInfo = PageInfoFor(args)

\* two requests were in flight together, the newer resolved first, and the
\* list ends with the older request's page under the newer filters
C17_Witness ==
    /\ Len(invoked) = 2
    /\ inflight = {}
    /\ timers = {}
    /\ applied = <<[id |-> 2, ok |-> TRUE], [id |-> 1, ok |-> TRUE]>>
    /\ invoked[1].args # invoked[2].args
    /\ listFilters = invoked[2].args
    /\ manifests = DocsFor(invoked[1].args)
    /\ paginationInfo = PageInfoFor(invoked[1].args)
    /\ manifests # DocsFor(listFilters)

(***************************************************************************)
(* C18.  While a call of getManifests started by fetchManifests has not    *)
(* settled, isListLoading is true.  It fails: the finally of each call     *)
(* clears the flag, whatever other calls remain in flight.                 *)
(***************************************************************************)
C18_LoadingWhileInFlight == inflight # {} => isListLoading

(***************************************************************************)
(* App.tsx 109-163, 165-171, 186-345: the navigation between the list and  *)
(* the detail view.  A shipment is named by its AWB number and an item by  *)
(* its id; <<>> stands for null.                                           *)
(***************************************************************************)

\* the number of manifests the user opens in one run
MaxOpens == 2

\* types.ts 22-31: a shipment with the ids of its ULDs and house shipments
NavShipment(awb, ulds, hawbs) ==
    [awb_number |-> awb, uld_contents |-> ulds, house_shipments |-> hawbs]

\* types.ts 41-48: the shipments of the manifests the server holds
NavShipments(id) ==
    CASE id = "m1" -> <<NavShipment(<<"A", "1">>, <<<<"U">>>>, <<<<"H">>>>),
                        NavShipment(<<"B", "2">>, <<>>, <<<<"K">>>>)>>
      [] id = "m2" -> <<NavShipment(<<"A", "3">>, <<>>, <<<<"J">>>>)>>
      [] id = "m3" -> <<NavShipment(<<"B", "4">>, <<>>, <<>>)>>
      [] OTHER -> <<>>

\* the ids of the rows of the list; "" is a summary that carries no id
NavIds == {"m1", "m2", "m3", "m4", ""}

\* what the user can type in the search box
SearchTerms == {<<>>, <<"a">>, <<"B">>, <<"z">>}

\* the tabs of the first App
Tabs == {"details", "ulds", "hawbs"}

\* App.tsx 165-171
filteredShipments(manifest, term) ==
    IF manifest.isNull THEN <<>>
    ELSE IF term = <<>> THEN manifest.data.shipments
    ELSE SelectSeq(manifest.data.shipments,
                   LAMBDA sh : Includes(ToLowerCase(sh.awb_number), ToLowerCase(term)))

\* a back button on every page, whatever is loaded
HeaderBackAlways(manifest) == TRUE

\* App.tsx 287-289: the header shows the back button only with a manifest
HeaderBackRendered(manifest) == ~manifest.isNull

\* App.tsx 311-313: the three panes are on screen
MainRendered == view = "detail" /\ ~isDetailLoading /\ ~currentManifest.isNull

\* App.tsx 186-280: the rows of the list are on screen
ListRendered == view = "list" /\ ~isListLoading /\ Len(manifests) > 0

\* the shipment that selectedMawb names
SelectedShipment ==
    LET shipments == currentManifest.data.shipments
    IN  shipments[CHOOSE i \in 1..Len(shipments) : shipments[i].awb_number = selectedMawb]

\* App.tsx 119-133: the selection after a manifest has arrived
FirstMawb(shipments) == IF Len(shipments) > 0 THEN shipments[1].awb_number ELSE <<>>

\* the first house shipment, whatever ULDs there are
FirstHawb(shipments) ==
    IF Len(shipments) > 0 /\ Len(shipments[1].house_shipments) > 0
    THEN shipments[1].house_shipments[1]
    ELSE <<>>

FirstItem(shipments) ==
    IF Len(shipments) > 0
    THEN IF Len(shipments[1].uld_contents) > 0 THEN shipments[1].uld_contents[1]
         ELSE IF Len(shipments[1].house_shipments) > 0
              THEN shipments[1].house_shipments[1]
              ELSE <<>>
    ELSE <<>>

\* the list has been fetched once and shows the manifests of the server
InitNav ==
    /\ listFilters = [manifestNo |-> "", page |-> 1]
    /\ now = 0
    /\ timers = {}
    /\ timeout = 0
    /\ changes = <<>>
    /\ invoked = <<>>
    /\ inflight = {}
    /\ applied = <<>>
    /\ manifests = <<"m1", "m2", "m3", "m4", "">>
    /\ paginationInfo = [page |-> 1, totalPages |-> 1, hasNextPage |-> FALSE,
                         hasPrevPage |-> FALSE]
    /\ isListLoading = FALSE
    /\ listError = ""
    /\ TransformIdle
    /\ FilterIdle
    /\ ChartIdle
    /\ NavIdle
    /\ OthersIdle

\* App.tsx 109-117, 245: View Details on a row with an id; the request leaves
HandleViewDetails ==
    /\ ListRendered
    /\ opens < MaxOpens
    /\ \E i \in 1..Len(manifests) :
          /\ manifests[i] # ""
          /\ detailFetch' = detailFetch \cup {[id |-> opens + 1, manifest |-> manifests[i]]}
    /\ isDetailLoading' = TRUE
    /\ detailError' = ""
    /\ view' = "detail"
    /\ opens' = opens + 1
    /\ lastHandler' = "view"
    /\ UNCHANGED <<currentManifest, selectedMawb, selectedItem, searchTerm, activeTab,
                   listError, notNav>>

\* App.tsx 109-116, 134-139: View Details on a row without an id throws at once
HandleViewDetailsInvalid ==
    /\ ListRendered
    /\ opens < MaxOpens
    /\ \E i \in 1..Len(manifests) : manifests[i] = ""
    /\ view' = "detail"
    /\ detailError' = "Invalid Manifest ID provided."
    /\ currentManifest' = NoManifestData
    /\ isDetailLoading' = FALSE
    /\ opens' = opens + 1
    /\ lastHandler' = "view"
    /\ UNCHANGED <<selectedMawb, selectedItem, searchTerm, activeTab, detailFetch,
                   listError, notNav>>

\* App.tsx 117-133, 137-139: getManifestDetails resolves
DetailData ==
    \E f \in detailFetch :
        /\ detailFetch' = detailFetch \ {f}
        /\ currentManifest' = [isNull |-> FALSE,
                               data |-> [id |-> f.manifest,
                                         shipments |-> NavShipments(f.manifest)]]
        /\ selectedMawb' = FirstMawb(NavShipments(f.manifest))
        /\ selectedItem' = FirstItem(NavShipments(f.manifest))
        /\ isDetailLoading' = FALSE
        /\ lastHandler' = "data"
        /\ UNCHANGED <<view, detailError, searchTerm, activeTab, opens, listError, notNav>>

\* App.tsx 134-139: getManifestDetails rejects
DetailCatch ==
    \E f \in detailFetch :
        /\ detailFetch' = detailFetch \ {f}
        /\ detailError' = "Failed to fetch details"
        /\ currentManifest' = NoManifestData
        /\ isDetailLoading' = FALSE
        /\ lastHandler' = "catch"
        /\ UNCHANGED <<view, selectedMawb, selectedItem, searchTerm, activeTab, opens,
                       listError, notNav>>

\* App.tsx 142-148
handleBackToList ==
    /\ view' = "list"
    /\ currentManifest' = NoManifestData
    /\ selectedMawb' = <<>>
    /\ selectedItem' = <<>>
    /\ detailError' = ""
    /\ UNCHANGED <<searchTerm, activeTab, isDetailLoading, detailFetch, opens>>

\* App.tsx 287-289: the back button of the header
HandleBackToList ==
    /\ view = "detail"
    /\ HeaderBackRendered(currentManifest)
    /\ handleBackToList
    /\ lastHandler' = "back"
    /\ UNCHANGED <<listError, notNav>>

\* App.tsx 329-345, 160-163: Back to List in the dialog of a failed fetch
ErrorBackToList ==
    /\ view = "detail"
    /\ detailError # ""
    /\ listError' = ""
    /\ handleBackToList
    /\ lastHandler' = "back"
    /\ UNCHANGED notNav

\* App.tsx 329-331, 160-163: the dialog of a failed fetch is closed
ClearErrors ==
    /\ view = "detail"
    /\ detailError # ""
    /\ listError' = ""
    /\ detailError' = ""
    /\ lastHandler' = "clear"
    /\ UNCHANGED <<currentManifest, view, selectedMawb, selectedItem, searchTerm,
                   activeTab, isDetailLoading, detailFetch, opens, notNav>>

\* App.tsx 316: the search box
SetSearchTerm ==
    /\ MainRendered
    /\ \E term \in SearchTerms : term # searchTerm /\ searchTerm' = term
    /\ lastHandler' = "search"
    /\ UNCHANGED <<currentManifest, detailError, view, selectedMawb, selectedItem,
                   activeTab, isDetailLoading, detailFetch, opens, listError, notNav>>

\* App.tsx 150-154, 317: a click on one of the shipments the search keeps
HandleSelectMawb ==
    /\ MainRendered
    /\ LET shown == filteredShipments(currentManifest, searchTerm)
       IN  \E i \in 1..Len(shown) : selectedMawb' = shown[i].awb_number
    /\ selectedItem' = <<>>
    /\ activeTab' = "details"
    /\ lastHandler' = "mawb"
    /\ UNCHANGED <<currentManifest, detailError, view, searchTerm, isDetailLoading,
                   detailFetch, opens, listError, notNav>>

\* App.tsx 320: the tabs of the selected shipment
SetActiveTab ==
    /\ MainRendered
    /\ selectedMawb # <<>>
    /\ \E tab \in Tabs : tab # activeTab /\ activeTab' = tab
    /\ lastHandler' = "tab"
    /\ UNCHANGED <<currentManifest, detailError, view, selectedMawb, selectedItem,
                   searchTerm, isDetailLoading, detailFetch, opens, listError, notNav>>

\* App.tsx 156-158, 320: a click on a ULD or a house shipment of the open tab
HandleSelectItem ==
    /\ MainRendered
    /\ selectedMawb # <<>>
    /\ LET items == IF activeTab = "ulds" THEN SelectedShipment.uld_contents
                    ELSE IF activeTab = "hawbs" THEN SelectedShipment.house_shipments
                    ELSE <<>>
       IN  \E i \in 1..Len(items) : selectedItem' = items[i]
    /\ lastHandler' = "item"
    /\ UNCHANGED <<currentManifest, detailError, view, selectedMawb, searchTerm,
                   activeTab, isDetailLoading, detailFetch, opens, listError, notNav>>

NextNav ==
    \/ HandleViewDetails
    \/ HandleViewDetailsInvalid
    \/ DetailData
    \/ DetailCatch
    \/ HandleBackToList
    \/ ErrorBackToList
    \/ ClearErrors
    \/ SetSearchTerm
    \/ HandleSelectMawb
    \/ SetActiveTab
    \/ HandleSelectItem

SpecNav == InitNav /\ [][NextNav]_vars

(***************************************************************************)
(* C19: whenever the list is shown, no manifest, no shipment and no item   *)
(* is held: a detail fetch cannot settle after the user went back to the   *)
(* list, because no control that leads back is on screen while one is      *)
(* under way.                                                              *)
(***************************************************************************)
C19_ListHoldsNoDetail ==
    view = "list" => /\ currentManifest.isNull
                     /\ selectedMawb = <<>>
                     /\ selectedItem = <<>>

\* the user is back on the list after a manifest arrived and was browsed
C19_Witness ==
    /\ view = "list"
    /\ lastHandler = "back"
    /\ opens = MaxOpens
    /\ detailFetch = {}
    /\ currentManifest.isNull

(***************************************************************************)
(* C20: after handleBackToList the state of the detail view has its        *)
(* initial values: no manifest, no shipment, no item, no error, an empty   *)
(* search term and the details tab.                                        *)
(***************************************************************************)
C20_BackResetsDetailState ==
    lastHandler = "back" => /\ currentManifest.isNull
                            /\ selectedMawb = <<>>
                            /\ selectedItem = <<>>
                            /\ detailError = ""
                            /\ searchTerm = <<>>
                            /\ activeTab = "details"

(***************************************************************************)
(* The proxy (unnamed/part_000): handle routes a request and fetchFromApi  *)
(* calls the external API and answers on res.  A path is the sequence of   *)
(* its segments; a response is what res.status(..).json(..) or .end(..)    *)
(* was given.                                                              *)
(***************************************************************************)
Methods == {"GET", "POST", "PUT"}

Paths == {<<"api", "get-manifests">>, <<"api", "get-manifest">>, <<"get-manifest">>,
          <<"api", "other">>}

\* the statuses the external API answers with
Statuses == {200, 201, 400, 404, 500, 503}

\* the bodies the external API answers with
Texts == {"{\"docs\":[]}", " [1] ", "", "<html>"}

\* Response.statusText
StatusText(s) ==
    CASE s = 200 -> "OK"
      [] s = 201 -> "Created"
      [] s = 400 -> "Bad Request"
      [] s = 404 -> "Not Found"
      [] s = 500 -> "Internal Server Error"
      [] OTHER -> "Service Unavailable"

\* Response.ok
Ok(s) == 200 <= s /\ s <= 299

\* Response.json(): the value a body holds, named by its canonical text, or
\* a SyntaxError
JsonParse(text) ==
    CASE text = "{\"docs\":[]}" -> [threw |-> FALSE, data |-> "{\"docs\":[]}"]
      [] text = " [1] " -> [threw |-> FALSE, data |-> "[1]"]
      [] OTHER -> [threw |-> TRUE, data |-> ""]

\* part_000 75: requestUrl.pathname.replace(/^\/api/, '')
StripApi(path) == IF Len(path) > 0 /\ Head(path) = "api" THEN Tail(path) ELSE path

Response(status, kind, message, details, data) ==
    [status |-> status, kind |-> kind, message |-> message, details |-> details,
     data |-> data]

\* part_000 59
BackendError(message) ==
    Response(500, "error", <<"An error occurred while calling the backend API.">>,
             message, "")

\* the status of a success, whatever the upstream answered
ForwardedAs200(status) == 200

\* part_000 54: res.status(apiResponse.status)
ForwardedStatus(status) == status

InitProxy ==
    /\ req \in [method : Methods, path : Paths, manifestId : {"", "m1"}]
    /\ upstream = NoUpstream
    /\ ppc = "handle"
    /\ sent = <<>>
    /\ upstreamCalls = 0
    /\ AppIdle
    /\ ChatIdle
    /\ PanelIdle
    /\ SuggestIdle

\* part_000 69-72
HandleMethodNotAllowed ==
    /\ ppc = "handle"
    /\ req.method \notin {"POST", "GET"}
    /\ sent' = Append(sent, Response(405, "text", <<"Method Not Allowed">>, "", ""))
    /\ ppc' = "done"
    /\ UNCHANGED <<req, upstream, upstreamCalls, notProxy>>

\* part_000 77-122: the list endpoint always calls the external API
HandleGetManifests ==
    /\ ppc = "handle"
    /\ req.method \in {"POST", "GET"}
    /\ StripApi(req.path) = <<"get-manifests">>
    /\ upstreamCalls' = upstreamCalls + 1
    /\ ppc' = "fetch"
    /\ UNCHANGED <<req, upstream, sent, notProxy>>

\* part_000 124-135: the detail endpoint without a manifestId
HandleGetManifestNoId ==
    /\ ppc = "handle"
    /\ req.method \in {"POST", "GET"}
    /\ StripApi(req.path) = <<"get-manifest">>
    /\ req.manifestId = ""
    /\ sent' = Append(sent, Response(400, "error", <<"A string manifestId is required.">>,
                                     "", ""))
    /\ ppc' = "done"
    /\ UNCHANGED <<req, upstream, upstreamCalls, notProxy>>

\* part_000 124-144: the detail endpoint with a manifestId
HandleGetManifest ==
    /\ ppc = "handle"
    /\ req.method \in {"POST", "GET"}
    /\ StripApi(req.path) = <<"get-manifest">>
    /\ req.manifestId # ""
    /\ upstreamCalls' = upstreamCalls + 1
    /\ ppc' = "fetch"
    /\ UNCHANGED <<req, upstream, sent, notProxy>>

\* part_000 146-148
HandleNotFound ==
    /\ ppc = "handle"
    /\ req.method \in {"POST", "GET"}
    /\ StripApi(req.path) \notin {<<"get-manifests">>, <<"get-manifest">>}
    /\ sent' = Append(sent, Response(404, "error", <<"Endpoint not found.">>, "", ""))
    /\ ppc' = "done"
    /\ UNCHANGED <<req, upstream, upstreamCalls, notProxy>>

\* part_000 38-41, 56-60: fetch rejects
FetchThrows ==
    /\ ppc = "fetch"
    /\ upstream' = [upstream EXCEPT !.fetch = "threw"]
    /\ sent' = Append(sent, BackendError("fetch failed"))
    /\ ppc' = "done"
    /\ UNCHANGED <<req, upstreamCalls, notProxy>>

\* part_000 38-41: fetch resolves with a status and a body still to be read
FetchAnswers ==
    /\ ppc = "fetch"
    /\ \E s \in Statuses, t \in Texts :
          upstream' = [upstream EXCEPT !.fetch = "answered", !.status = s, !.text = t]
    /\ ppc' = "body"
    /\ UNCHANGED <<req, sent, upstreamCalls, notProxy>>

\* part_000 45, 51, 56-60: reading the body rejects
BodyReadThrows ==
    /\ ppc = "body"
    /\ upstream' = [upstream EXCEPT !.read = "threw"]
    /\ sent' = Append(sent, BackendError("terminated"))
    /\ ppc' = "done"
    /\ UNCHANGED <<req, upstreamCalls, notProxy>>

\* part_000 43-49: a non-2xx answer is forwarded with its text
ForwardError ==
    /\ ppc = "body"
    /\ ~Ok(upstream.status)
    /\ upstream' = [upstream EXCEPT !.read = "read"]
    /\ sent' = Append(sent,
                      Response(upstream.status, "upstreamError",
                               <<"Error from external API: ", StatusText(upstream.status)>>,
                               upstream.text, ""))
    /\ ppc' = "done"
    /\ UNCHANGED <<req, upstreamCalls, notProxy>>

\* part_000 51-54, 56-60: a 2xx answer is parsed and forwarded, or the parse throws
ForwardData ==
    /\ ppc = "body"
    /\ Ok(upstream.status)
    /\ upstream' = [upstream EXCEPT !.read = "read"]
    /\ \E parsed \in {JsonParse(upstream.text)} :
          sent' = Append(sent,
                         IF parsed.threw THEN BackendError("Unexpected token")
                         ELSE Response(ForwardedStatus(upstream.status), "data", <<>>, "",
                                       parsed.data))
    /\ ppc' = "done"
    /\ UNCHANGED <<req, upstreamCalls, notProxy>>

NextProxy ==
    \/ HandleMethodNotAllowed
    \/ HandleGetManifests
    \/ HandleGetManifestNoId
    \/ HandleGetManifest
    \/ HandleNotFound
    \/ FetchThrows
    \/ FetchAnswers
    \/ BodyReadThrows
    \/ ForwardError
    \/ ForwardData

SpecProxy == InitProxy /\ [][NextProxy]_vars

\* the one response of a finished upstream call
TheResponse == sent[1]

\* the body of a 2xx answer was read and is no JSON
ParseThrew ==
    upstream.read = "read" /\ Ok(upstream.status) /\ JsonParse(upstream.text).threw

\* the proxy has finished a request that called the external API
UpstreamCallDone == ppc = "done" /\ upstreamCalls = 1

(***************************************************************************)
(* C21 as stated: one response per upstream call; a non-2xx status is      *)
(* answered with the same status, a message and the details, a 2xx status  *)
(* with that status and the JSON body, a throwing fetch or JSON parse      *)
(* with 500 and an error message.                                          *)
(***************************************************************************)
C21_OneResponsePerCall ==
    /\ upstreamCalls <= 1
    /\ Len(sent) <= 1
    /\ UpstreamCallDone =>
          /\ Len(sent) = 1
          /\ (upstream.fetch = "answered" /\ ~Ok(upstream.status)) =>
                /\ TheResponse.status = upstream.status
                /\ TheResponse.kind = "upstreamError"
                /\ TheResponse.details = upstream.text
          /\ (upstream.fetch = "answered" /\ Ok(upstream.status)
                /\ ~JsonParse(upstream.text).threw) =>
                /\ TheResponse.status = upstream.status
                /\ TheResponse.data = JsonParse(upstream.text).data
          /\ (upstream.fetch = "threw" \/ ParseThrew) =>
                /\ TheResponse.status = 500
                /\ TheResponse.kind = "error"

(***************************************************************************)
(* C21, amended: the status and the body are forwarded when the body of    *)
(* the answer could be read; a fetch, a read of the body or a JSON parse   *)
(* that throws is answered with 500 and an error message.                  *)
(***************************************************************************)
C21_OneResponsePerCallRead ==
    /\ upstreamCalls <= 1
    /\ Len(sent) <= 1
    /\ UpstreamCallDone =>
          /\ Len(sent) = 1
          /\ (upstream.read = "read" /\ ~Ok(upstream.status)) =>
                /\ TheResponse.status = upstream.status
                /\ TheResponse.kind = "upstreamError"
                /\ TheResponse.message
                      = <<"Error from external API: ", StatusText(upstream.status)>>
                /\ TheResponse.details = upstream.text
          /\ (upstream.read = "read" /\ Ok(upstream.status)
                /\ ~JsonParse(upstream.text).threw) =>
                /\ TheResponse.status = upstream.status
                /\ TheResponse.kind = "data"
                /\ TheResponse.data = JsonParse(upstream.text).data
          /\ (upstream.fetch = "threw" \/ upstream.read = "threw" \/ ParseThrew) =>
                /\ TheResponse.status = 500
                /\ TheResponse.kind = "error"

\* a 404 has been forwarded with its body as details
C21_Witness ==
    /\ UpstreamCallDone
    /\ upstream.read = "read"
    /\ upstream.status = 404
    /\ Len(sent) = 1
    /\ TheResponse.status = 404
    /\ TheResponse.details = "<html>"

(***************************************************************************)
(* The chat of the assistant (Modal.tsx 838-904).  A text is a sequence:   *)
(* of characters for what the user types, of chunks for what the model     *)
(* streams.                                                                *)
(***************************************************************************)
\* the calls of handleSend the model follows
MaxSends == 2
\* the chunks of one stream
MaxChunks == 2

\* what the user can have typed
Inputs == {<<>>, <<" ">>, <<"q">>, <<" ", "q">>}

\* !input.trim()
Blank(text) == \A i \in 1..Len(text) : text[i] = " "

\* Modal.tsx 899
Apology == <<"Sorry, an error occurred while generating the response. Please try again.">>

ChatMessage(sender, text) == [sender |-> sender, text |-> text]

\* Modal.tsx 840: handleSend returns at once
SendRejected == Blank(input) \/ isLoading \/ ~hasManifest

\* isLoading is left as it is
LoadingKept(loading) == loading

\* Modal.tsx 901-903: finally { setIsLoading(false) }
LoadingAfterSend(loading) == FALSE

InitChat ==
    /\ messages = <<ChatMessage("ai", <<"Hello!">>)>>
    /\ input = <<>>
    /\ isLoading = FALSE
    /\ chat \in {"null", "chat"}
    /\ hasManifest \in BOOLEAN
    /\ hpc = "idle"
    /\ aiAccumulated = <<>>
    /\ sends = 0
    /\ failures = 0
    /\ AppIdle
    /\ ProxyIdle
    /\ PanelIdle
    /\ SuggestIdle

\* Modal.tsx 1192: the user types
SetInput ==
    /\ \E text \in Inputs : text # input /\ input' = text
    /\ UNCHANGED <<messages, isLoading, chat, hasManifest, hpc, aiAccumulated, sends,
                   failures, notChat>>

\* Modal.tsx 838-865: up to the await of sendMessageStream
HandleSend ==
    /\ hpc = "idle"
    /\ ~SendRejected
    /\ sends < MaxSends
    /\ messages' = Append(messages, ChatMessage("user", input))
    /\ input' = <<>>
    /\ isLoading' = TRUE
    /\ chat' = "chat"
    /\ hpc' = "send"
    /\ sends' = sends + 1
    /\ UNCHANGED <<hasManifest, aiAccumulated, failures, notChat>>

\* Modal.tsx 838-863, 897-903: ai.chats.create throws
HandleSendCreateThrows ==
    /\ hpc = "idle"
    /\ ~SendRejected
    /\ sends < MaxSends
    /\ chat = "null"
    /\ messages' = messages \o <<ChatMessage("user", input), ChatMessage("ai", Apology)>>
    /\ input' = <<>>
    /\ isLoading' = LoadingAfterSend(TRUE)
    /\ sends' = sends + 1
    /\ failures' = failures + 1
    /\ UNCHANGED <<chat, hasManifest, hpc, aiAccumulated, notChat>>

\* Modal.tsx 865, 897-903: sendMessageStream rejects
SendMessageThrows ==
    /\ hpc = "send"
    /\ messages' = Append(messages, ChatMessage("ai", Apology))
    /\ isLoading' = LoadingAfterSend(isLoading)
    /\ hpc' = "idle"
    /\ failures' = failures + 1
    /\ UNCHANGED <<input, chat, hasManifest, aiAccumulated, sends, notChat>>

\* Modal.tsx 865-867: sendMessageStream resolves
SendMessageResolves ==
    /\ hpc = "send"
    /\ aiAccumulated' = <<>>
    /\ messages' = Append(messages, ChatMessage("ai", <<>>))
    /\ hpc' = "stream"
    /\ UNCHANGED <<input, isLoading, chat, hasManifest, sends, failures, notChat>>

\* Modal.tsx 869-878: a chunk arrives
StreamChunk ==
    /\ hpc = "stream"
    /\ Len(aiAccumulated) < MaxChunks
    /\ aiAccumulated' = Append(aiAccumulated, "c")
    /\ messages' = [messages EXCEPT ![Len(messages)].text = aiAccumulated']
    /\ UNCHANGED <<input, isLoading, chat, hasManifest, hpc, sends, failures, notChat>>

\* Modal.tsx 869, 897-903: the iteration of the stream throws
StreamThrows ==
    /\ hpc = "stream"
    /\ messages' = Append(messages, ChatMessage("ai", Apology))
    /\ isLoading' = LoadingAfterSend(isLoading)
    /\ hpc' = "idle"
    /\ failures' = failures + 1
    /\ UNCHANGED <<input, chat, hasManifest, aiAccumulated, sends, notChat>>

\* Modal.tsx 880-896, 901-903: the stream ends
StreamEnds ==
    /\ hpc = "stream"
    /\ messages' = [messages EXCEPT ![Len(messages)].text = aiAccumulated]
    /\ isLoading' = LoadingAfterSend(isLoading)
    /\ hpc' = "idle"
    /\ UNCHANGED <<input, chat, hasManifest, aiAccumulated, sends, failures, notChat>>

NextChat ==
    \/ SetInput
    \/ HandleSend
    \/ HandleSendCreateThrows
    \/ SendMessageThrows
    \/ SendMessageResolves
    \/ StreamChunk
    \/ StreamThrows
    \/ StreamEnds

SpecChat == InitChat /\ [][NextChat]_vars

\* the apologies in the conversation
Apologies == {i \in 1..Len(messages) : messages[i] = ChatMessage("ai", Apology)}

(***************************************************************************)
(* C22: every handleSend that failed has added one apology to the          *)
(* conversation; isLoading is false whenever no handleSend is under way;   *)
(* and a handleSend with non-blank input is then accepted.                 *)
(***************************************************************************)
C22_ChatFailuresNotFatal ==
    /\ Cardinality(Apologies) = failures
    /\ hpc = "idle" => ~isLoading
    /\ (hpc = "idle" /\ hasManifest /\ ~Blank(input)) => ~SendRejected

\* a second handleSend was accepted after the first one failed while streaming
C22_Witness ==
    /\ sends = 2
    /\ failures = 1
    /\ hpc = "send"
    /\ Len(messages) = 5
    /\ messages[4] = ChatMessage("ai", Apology)

(***************************************************************************)
(* C23: when the container walk adds no shipment, that is when no          *)
(* masterbill of a container has a non-empty AWB number, and a top-level   *)
(* masterbill has one, the shipments are built from the top-level          *)
(* masterbills and are not empty.                                          *)
(***************************************************************************)
C23_FallbackWhenWalkAddsNothing ==
    LET walk == ContainerSources(ArrayOrEmpty(DocOf(raw).containers))
        top == ArrayOrEmpty(DocOf(raw).masterbills)
    IN (/\ Returned
        /\ Numbered(walk) = <<>>
        /\ \E i \in 1..Len(top) : Nullish(top[i].masterbillNumber, "") # "") =>
            Len(Result.shipments) > 0

(***************************************************************************)
(* C24: in every shipment transformManifest returns, the pieces of its     *)
(* uld_contents add up to the pieces of the shipment, on the container     *)
(* walk and on the top-level fallback.                                     *)
(***************************************************************************)
C24_UldPiecesAddUp ==
    Returned =>
        \A i \in 1..Len(Result.shipments) :
            LET ulds == Result.shipments[i].uld_contents
            IN Total([a \in 1..Len(ulds) |-> ulds[a].pieces]) = Result.shipments[i].pieces

\* the fallback path gave a shipment of two masterbills whose four pieces lie
\* in two ULDs, "UNKNOWN-ULD" being one of them
C24_Witness ==
    /\ Returned
    /\ ~OnWalk
    /\ \E i \in 1..Len(Result.shipments) :
          LET ulds == Result.shipments[i].uld_contents
          IN /\ Result.shipments[i].pieces = 4
             /\ Len(ulds) = 2
             /\ \E a \in 1..2 : ulds[a].uld_id = "UNKNOWN-ULD" /\ ulds[a].pieces = 2

(***************************************************************************)
(* The anomaly report of the assistant (Modal.tsx 955-969), on weights in  *)
(* units of 1/WScale kg.                                                   *)
(***************************************************************************)
\* Modal.tsx 959: the actual weights of the house shipments, added up
HouseWeightOf(shipment) ==
    Total([h \in 1..Len(shipment.house_shipments) |->
             shipment.house_shipments[h].actual_weight_kg])

Abs(n) == IF n < 0 THEN 0 - n ELSE n

\* Modal.tsx 960-961: delta > Math.max(50, weight * 0.05)
WeightMismatch(shipment) ==
    LET delta == Abs(shipment.weight.value - HouseWeightOf(shipment))
    IN delta > Kg(50) /\ 20 * delta > shipment.weight.value

\* Modal.tsx 957-967: the shipments reported with 'Weight mismatch'
MismatchRows(manifest) ==
    SelectSeq(manifest.shipments, WeightMismatch)

(***************************************************************************)
(* C25: in every shipment transformManifest returns, weight.value is the   *)
(* sum of the actual weights of its house shipments, so the anomaly report *)
(* of such a manifest holds no 'Weight mismatch' row.                      *)
(***************************************************************************)
C25_WeightIsHouseWeight ==
    Returned =>
        /\ \A i \in 1..Len(Result.shipments) :
              Result.shipments[i].weight.value = HouseWeightOf(Result.shipments[i])
        /\ MismatchRows(Result) = <<>>

\* a shipment of two masterbills with four house shipments, of 16 kg in all
C25_Witness ==
    /\ Returned
    /\ \E i \in 1..Len(Result.shipments) :
          /\ Len(Result.shipments[i].house_shipments) = 4
          /\ Result.shipments[i].weight.value = Kg(16)

(***************************************************************************)
(* C26: the user is never stranded in the detail view: when the detail     *)
(* view is shown and no detail fetch is under way, a manifest is held (the *)
(* header shows its back button) or detailError is set (the error dialog   *)
(* with its Back to List button is open).                                  *)
(***************************************************************************)
C26_NeverStranded ==
    (view = "detail" /\ detailFetch = {}) => (~currentManifest.isNull \/ detailError # "")

\* the items of a shipment: the ids of its ULDs and of its house shipments
ItemsOf(shipment) ==
    {shipment.uld_contents[i] : i \in 1..Len(shipment.uld_contents)}
        \cup {shipment.house_shipments[i] : i \in 1..Len(shipment.house_shipments)}

HistogramRows == applyFilters(getSourceRows(manifestData, spec0.source), spec0.filters)

\* Number(v || 0) is a finite number: v is missing, empty, a number or a numeral
FiniteValue(v) ==
    \/ v = Undef
    \/ v = Str(<<>>)
    \/ v.t = "number"
    \/ v.t = "string" /\ \A i \in 1..Len(v.s) : \E d \in 1..Len(Digits) : v.s[i] = Digits[d]

RECURSIVE CountsTotal(_, _)
\* the sum of the first n counts
CountsTotal(counts, n) == IF n = 0 THEN 0 ELSE counts[n] + CountsTotal(counts, n - 1)

(***************************************************************************)
(* C28: the histogram has max(5, min(binCount or 12, 50)) buckets, no      *)
(* count is negative, and the counts add up to the number of filtered rows *)
(* whose value is a finite number: every such row is counted once, the     *)
(* rows at the upper end of the range in the last bucket.                  *)
(***************************************************************************)
C28_HistogramConservation ==
    cpc = "built" =>
        LET asked == IF spec0.binCount \in {Undef, Num(0)} THEN DefaultBins
                     ELSE spec0.binCount.n
            atMost == IF asked <= MaxBins THEN asked ELSE MaxBins
            buckets == IF atMost >= MinBins THEN atMost ELSE MinBins
            finite == {i \in 1..Len(HistogramRows) :
                         FiniteValue(getValueByPath(HistogramRows[i], spec0.xField))}
            top == {k \in 1..Len(ValuesBinned) : ValuesBinned[k] = MaxOf(ValuesBinned)}
        IN /\ option.bins = buckets
           /\ DOMAIN option.counts = 1..buckets
           /\ \A b \in 1..buckets : option.counts[b] >= 0
           /\ CountsTotal(option.counts, buckets) = Cardinality(finite)
           /\ option.counts[buckets] >= Cardinality(top)

\* three rows, one of them without a finite value and left out, the other
\* two counted in the first of 50 buckets
C28_Witness ==
    /\ cpc = "built"
    /\ spec0.xField = <<"nature_of_goods">>
    /\ spec0.binCount = Num(MaxBins + 10)
    /\ Len(HistogramRows) = 3
    /\ ValuesBinned = <<0, 0>>
    /\ option.counts[50] = 0
    /\ option.counts[1] = 2

(***************************************************************************)
(* The automatic execution of suggested actions (Modal.tsx 914-947,        *)
(* 1072-1123).  An action is its type, a message is the action list parsed *)
(* from its actionsJson, <<>> when it has none.  After every commit that   *)
(* changed messages, isOpen or manifestData the two effects run, in the    *)
(* order they are declared, before the next event.                         *)
(***************************************************************************)
\* most messages of the chat
MaxMessages == 4

\* a chart; one action that is no chart; two actions, none of them a chart;
\* two actions, the second a chart
ActionLists ==
    {<<"render_chart">>, <<"anomaly_report">>,
     <<"weight_distribution", "anomaly_report">>,
     <<"anomaly_report", "render_chart">>}

RECURSIVE latestActions(_)
\* Modal.tsx 914-927: the actions of the last message that has some
latestActions(msgs) ==
    IF msgs = <<>> THEN <<>>
    ELSE IF msgs[Len(msgs)] # <<>> THEN msgs[Len(msgs)]
    ELSE latestActions(SubSeq(msgs, 1, Len(msgs) - 1))

\* Modal.tsx 933, 1074: JSON.stringify(latestActions)
Hash(list) == <<"[">> \o list \o <<"]">>

\* the effects share no ref: no list was seen before
NeverSeen(hash, ref) == FALSE

\* Modal.tsx 934, 1075: hash === lastActionsHashRef.current
AlreadySeen(hash, ref) == hash = ref

\* Modal.tsx 937-946, 1078-1087: the action the effect executes, "" for none
ActionToExecute(list) ==
    IF \E i \in 1..Len(list) : list[i] = "render_chart" THEN "render_chart"
    ELSE IF Len(list) = 1 THEN list[1]
    ELSE ""

\* Modal.tsx 1090-1123: openAction; generateChartDataFromSpec can throw,
\* and then the modal is left as it is
OpenAction(action) ==
    /\ executed' = Append(executed, [list |-> latestActions(actionMessages),
                                     action |-> action,
                                     seen |-> lastActionsHashRef,
                                     by |-> trigger])
    /\ runExecs' = runExecs + 1
    /\ \/ /\ action = "render_chart"
          /\ modalView' = "chart"
          /\ isModalOpen' = TRUE
       \/ /\ action = "render_chart"
          /\ UNCHANGED <<modalView, isModalOpen>>
       \/ /\ action = "weight_distribution"
          /\ modalView' = "chart"
          /\ isModalOpen' = TRUE
       \/ /\ action = "anomaly_report"
          /\ modalView' = "anomaly"
          /\ isModalOpen' = TRUE

\* Modal.tsx 931-947 and 1072-1088: the body the two effects share
AutoExecuteEffect ==
    LET list == latestActions(actionMessages)
    IN IF ~isOpen \/ panelManifest = "" \/ list = <<>>
       THEN UNCHANGED <<lastActionsHashRef, executed, runExecs, modalView, isModalOpen>>
       ELSE IF AlreadySeen(Hash(list), lastActionsHashRef)
       THEN UNCHANGED <<lastActionsHashRef, executed, runExecs, modalView, isModalOpen>>
       ELSE /\ lastActionsHashRef' = Hash(list)
            /\ IF ActionToExecute(list) # ""
               THEN OpenAction(ActionToExecute(list))
               ELSE UNCHANGED <<executed, runExecs, modalView, isModalOpen>>

\* the assistant is open on a manifest and shows its greeting
InitAutoExecute ==
    /\ isOpen = TRUE
    /\ panelManifest = "m1"
    /\ actionMessages = <<<<>>>>
    /\ lastActionsHashRef = <<>>
    /\ apc = "idle"
    /\ trigger = "none"
    /\ executed = <<>>
    /\ runExecs = 0
    /\ modalView = "none"
    /\ isModalOpen = FALSE
    /\ AppIdle
    /\ ProxyIdle
    /\ ChatIdle
    /\ SuggestIdle

\* Modal.tsx 846, 880-896: a message is added, of the user or of the model
\* without actions, or of the model with actions
ReceiveMessage ==
    /\ apc = "idle"
    /\ Len(actionMessages) < MaxMessages
    /\ \E m \in ActionLists \cup {<<>>} :
          /\ actionMessages' = Append(actionMessages, m)
          /\ trigger' = IF m = <<>> THEN "plain" ELSE "actions"
    /\ apc' = "first"
    /\ runExecs' = 0
    /\ UNCHANGED <<kvars, lastActionsHashRef, executed, modalView, isModalOpen>>
    /\ UNCHANGED notAutoExecute

\* App.tsx 353: onClose
ClosePanel ==
    /\ apc = "idle"
    /\ isOpen
    /\ isOpen' = FALSE
    /\ trigger' = "close"
    /\ apc' = "first"
    /\ runExecs' = 0
    /\ UNCHANGED <<panelManifest, actionMessages, lastActionsHashRef, executed, modalView,
                   isModalOpen>>
    /\ UNCHANGED notAutoExecute

\* App.tsx 352: the button that opens the assistant; the session effect
\* (Modal.tsx 244-298) sets the messages the session holds, which are these
OpenPanel ==
    /\ apc = "idle"
    /\ ~isOpen
    /\ isOpen' = TRUE
    /\ trigger' = "open"
    /\ apc' = "first"
    /\ runExecs' = 0
    /\ UNCHANGED <<panelManifest, actionMessages, lastActionsHashRef, executed, modalView,
                   isModalOpen>>
    /\ UNCHANGED notAutoExecute

\* App.tsx 141-145, 109-128: currentManifest becomes null, or the manifest again
SetManifestData ==
    /\ apc = "idle"
    /\ panelManifest' = IF panelManifest = "" THEN "m1" ELSE ""
    /\ trigger' = "manifest"
    /\ apc' = "first"
    /\ runExecs' = 0
    /\ UNCHANGED <<isOpen, actionMessages, lastActionsHashRef, executed, modalView,
                   isModalOpen>>
    /\ UNCHANGED notAutoExecute

\* Modal.tsx 931-947: the effect declared first
AutoExecuteFirst ==
    /\ apc = "first"
    /\ AutoExecuteEffect
    /\ apc' = "second"
    /\ UNCHANGED <<kvars, actionMessages, trigger>>
    /\ UNCHANGED notAutoExecute

\* Modal.tsx 1072-1088: its duplicate
AutoExecuteSecond ==
    /\ apc = "second"
    /\ AutoExecuteEffect
    /\ apc' = "idle"
    /\ UNCHANGED <<kvars, actionMessages, trigger>>
    /\ UNCHANGED notAutoExecute

NextAutoExecute ==
    \/ ReceiveMessage
    \/ ClosePanel
    \/ OpenPanel
    \/ SetManifestData
    \/ AutoExecuteFirst
    \/ AutoExecuteSecond

SpecAutoExecute == InitAutoExecute /\ [][NextAutoExecute]_vars

MaxAttempts == 3
\* the calls of fetchAiSuggestions the model follows
MaxInvocations == 2

\* what tryOnce can return when the model answered with actions
Suggestions == {<<"render_chart">>, <<"anomaly_report", "print_summary">>}

\* Modal.tsx 978: JSON.stringify({ id: manifestData.id, selected: undefined })
SuggestHash(id) == <<"{id:", id, "}">>

\* the loop goes on whatever it has got
LoopIgnoresGot(a, g) == a < MaxAttempts

\* Modal.tsx 1047: attempt < 3 && !got
LoopContinues(a, g) == a < MaxAttempts /\ g = <<>>

\* Modal.tsx 1047, 1061-1067: attempt++, then the next round of the loop,
\* or setAiSuggestedActions(got || []) and finally setIsSuggesting(false)
AfterRound(g) ==
    /\ attempt' = attempt + 1
    /\ got' = g
    /\ IF LoopContinues(attempt + 1, g)
       THEN /\ spc' = "try"
            /\ UNCHANGED <<aiSuggestedActions, isSuggesting>>
       ELSE /\ spc' = "idle"
            /\ aiSuggestedActions' = g
            /\ isSuggesting' = FALSE

\* the panel is open on a manifest and nothing was suggested
InitSuggest ==
    /\ isOpen = TRUE
    /\ panelManifest = "m1"
    /\ suggestHashRef = <<>>
    /\ aiSuggestedActions = <<>>
    /\ isSuggesting = FALSE
    /\ attempt = 0
    /\ got = <<>>
    /\ spc = "idle"
    /\ outcomes = <<>>
    /\ invocations = 0
    /\ actionMessages = <<>>
    /\ lastActionsHashRef = <<>>
    /\ apc = "idle"
    /\ trigger = "none"
    /\ executed = <<>>
    /\ runExecs = 0
    /\ modalView = "none"
    /\ isModalOpen = FALSE
    /\ AppIdle
    /\ ProxyIdle
    /\ ChatIdle

\* App.tsx 353: the panel is closed or opened, another manifest is shown or none
SetSuggestProps ==
    /\ \E open \in BOOLEAN, id \in {"", "m1", "m2"} :
          /\ <<open, id>> # <<isOpen, panelManifest>>
          /\ isOpen' = open
          /\ panelManifest' = id
    /\ UNCHANGED svars
    /\ UNCHANGED <<avars, appVars, pvars, hvars>>

\* Modal.tsx 976-979: the same manifest as last time and suggestions are shown
FetchAiSuggestionsDuplicate ==
    /\ spc = "idle"
    /\ isOpen /\ panelManifest # "" /\ ~isSuggesting
    /\ invocations < MaxInvocations
    /\ SuggestHash(panelManifest) = suggestHashRef /\ aiSuggestedActions # <<>>
    /\ invocations' = invocations + 1
    /\ UNCHANGED <<suggestHashRef, aiSuggestedActions, isSuggesting, attempt, got, spc,
                   outcomes>>
    /\ UNCHANGED kvars
    /\ UNCHANGED notSuggest

\* Modal.tsx 976-1049: up to the first await tryOnce
FetchAiSuggestions ==
    /\ spc = "idle"
    /\ isOpen /\ panelManifest # "" /\ ~isSuggesting
    /\ invocations < MaxInvocations
    /\ ~(SuggestHash(panelManifest) = suggestHashRef /\ aiSuggestedActions # <<>>)
    /\ invocations' = invocations + 1
    /\ suggestHashRef' = SuggestHash(panelManifest)
    /\ isSuggesting' = TRUE
    /\ attempt' = 0
    /\ got' = <<>>
    /\ outcomes' = <<>>
    /\ spc' = "try"
    /\ UNCHANGED aiSuggestedActions
    /\ UNCHANGED kvars
    /\ UNCHANGED notSuggest

\* Modal.tsx 1032-1041, 1049-1050: tryOnce returns a list of actions
TryOnceReturns ==
    /\ spc = "try"
    /\ outcomes' = Append(outcomes, "actions")
    /\ \E list \in Suggestions : AfterRound(list)
    /\ UNCHANGED <<suggestHashRef, invocations>>
    /\ UNCHANGED kvars
    /\ UNCHANGED notSuggest

\* Modal.tsx 1041, 1050-1056: tryOnce returns null, Empty suggestions is thrown
TryOnceEmpty ==
    /\ spc = "try"
    /\ outcomes' = Append(outcomes, "empty")
    /\ spc' = "delay"
    /\ UNCHANGED <<suggestHashRef, aiSuggestedActions, isSuggesting, attempt, got,
                   invocations>>
    /\ UNCHANGED kvars
    /\ UNCHANGED notSuggest

\* Modal.tsx 1033-1035, 1054-1056: creating the chat, sending or the stream throws
TryOnceThrows ==
    /\ spc = "try"
    /\ outcomes' = Append(outcomes, "threw")
    /\ spc' = "delay"
    /\ UNCHANGED <<suggestHashRef, aiSuggestedActions, isSuggesting, attempt, got,
                   invocations>>
    /\ UNCHANGED kvars
    /\ UNCHANGED notSuggest

\* Modal.tsx 1055-1056: the timer of 500 * 2^attempt ms fires
DelayElapses ==
    /\ spc = "delay"
    /\ AfterRound(got)
    /\ UNCHANGED <<suggestHashRef, outcomes, invocations>>
    /\ UNCHANGED kvars
    /\ UNCHANGED notSuggest

\* the promise of tryOnce settles
TryOnceSettles == TryOnceReturns \/ TryOnceEmpty \/ TryOnceThrows

NextSuggest ==
    \/ SetSuggestProps
    \/ FetchAiSuggestionsDuplicate
    \/ FetchAiSuggestions
    \/ TryOnceReturns
    \/ TryOnceEmpty
    \/ TryOnceThrows
    \/ DelayElapses

SpecSuggest == InitSuggest /\ [][NextSuggest]_vars

\* every call of the model settles and every timer fires
FairSpecSuggest == SpecSuggest /\ WF_vars(TryOnceSettles) /\ WF_vars(DelayElapses)

\* an invocation that passed the guards has ended
SuggestEnded == spc = "idle" /\ outcomes # <<>>

\* what holds of fetchAiSuggestions in every state
SuggestBounded ==
    /\ Len(outcomes) <= 3
    /\ \A k \in 1..(Len(outcomes) - 1) : outcomes[k] # "actions"
    /\ isSuggesting <=> spc # "idle"
    /\ SuggestEnded =>
          /\ aiSuggestedActions = got
          /\ (outcomes[Len(outcomes)] = "actions") <=> (got # <<>>)
          /\ got = <<>> => Len(outcomes) = 3

(***************************************************************************)
(* C30: an invocation of fetchAiSuggestions that passes its guards makes   *)
(* at most 3 attempts and none after one that gave actions, sets           *)
(* aiSuggestedActions to the actions it got or to the empty list after 3   *)
(* attempts without any, and whenever isSuggesting is true it becomes      *)
(* false again.                                                            *)
(***************************************************************************)
C30_BoundedRetries == []SuggestBounded /\ (isSuggesting ~> ~isSuggesting)

\* the second invocation, for another manifest, made three attempts that
\* were empty or threw and ended with no suggestions
C30_Witness ==
    /\ SuggestEnded
    /\ invocations = 2
    /\ suggestHashRef = SuggestHash("m2")
    /\ outcomes = <<"empty", "threw", "empty">>
    /\ attempt = 3
    /\ aiSuggestedActions = <<>>
    /\ ~isSuggesting

====
